---- MODULE Spec2Model ----
(***************************************************************************)
(* The pivot-table subsystem of excelize (pivotTable.go) as a state        *)
(* machine over one open document (a File).  The package store f.Pkg, the  *)
(* relationship parts f.Relationships, the workbook's pivot cache registry *)
(* and the content types are the state; AddPivotTable, GetPivotTables and  *)
(* DeletePivotTable are the actions.  Strings are TLA+ strings and are     *)
(* split, searched and formatted character by character as the Go code     *)
(* does it.  The display flags of PivotTableOptions (RowGrandTotals ...    *)
(* PivotTableStyleName) are copied verbatim by the code and are left out.  *)
(***************************************************************************)
EXTENDS Integers, Sequences, FiniteSets, TLC

\* ------------------------------------------------------------------ bounds
\* AddPivotTable calls made in one behaviour of Spec.
MaxAdds == 2
\* Entries of Rows, Columns, Filter and Data together in one spec of SpecFields.
MaxFieldEntries == 2

\* ------------------------------------------------------- program constants
MaxFieldLength == 255

SourceRelationshipPivotTable == "pivotTable"
SourceRelationshipPivotCache == "pivotCacheDefinition"
SourceRelationshipWorkSheet == "worksheet"

ErrParameterRequired == "parameter is required"
ErrParameterInvalid == "parameter is invalid"
ErrNameLength == "the name length exceeds the 255 characters limit"

\* ------------------------------------------------------------ evaluation
\* F(v), with v evaluated once before F is applied to it (a local variable).
With(v, F(_)) == CHOOSE r \in {F(x) : x \in {v}} : TRUE

\* ------------------------------------------------------------ Go strings
Char(s, i) == SubSeq(s, i, i)

\* The least element of a nonempty set of integers.
Least(S) == CHOOSE i \in S : \A j \in S : i <= j

\* strings.Index(s, sub), 1-based; 0 when sub does not occur in s.
Index(s, sub) ==
  With({i \in 1..(Len(s) - Len(sub) + 1) : SubSeq(s, i, i + Len(sub) - 1) = sub},
       LAMBDA hits : IF hits = {} THEN 0 ELSE Least(hits))

\* strings.Contains(s, sub)
Contains(s, sub) == Index(s, sub) # 0

\* strings.Split(s, sep) for a one-character sep.
RECURSIVE Split(_, _)
Split(s, sep) ==
  With(Index(s, sep),
       LAMBDA p : IF p = 0 THEN <<s>>
                  ELSE With(SubSeq(s, p + 1, Len(s)),
                            LAMBDA rest : <<SubSeq(s, 1, p - 1)>> \o Split(rest, sep)))

\* strings.ReplaceAll(s, old, new)
RECURSIVE ReplaceAll(_, _, _)
ReplaceAll(s, old, new) ==
  With(Index(s, old),
       LAMBDA p : IF p = 0 THEN s
                  ELSE With(SubSeq(s, p + Len(old), Len(s)),
                            LAMBDA rest : SubSeq(s, 1, p - 1) \o new
                                          \o ReplaceAll(rest, old, new)))

\* strings.TrimPrefix(s, prefix)
TrimPrefix(s, prefix) ==
  IF Len(s) >= Len(prefix) /\ SubSeq(s, 1, Len(prefix)) = prefix
  THEN SubSeq(s, Len(prefix) + 1, Len(s))
  ELSE s

\* filepath.Base(path) of a slash-separated path without trailing slash.
Base(path) == With(Split(path, "/"), LAMBDA parts : parts[Len(parts)])

Digits == "0123456789"

\* The value of each decimal digit.
DigitValue == [c \in {Char(Digits, i) : i \in 1..10} |->
                 CHOOSE i \in 0..9 : Char(Digits, i + 1) = c]

\* strconv.Itoa(n) for n >= 0
RECURSIVE Itoa(_)
Itoa(n) ==
  IF n < 10 THEN Char(Digits, n + 1)
  ELSE Itoa(n \div 10) \o Char(Digits, (n % 10) + 1)

\* The value of a string of decimal digits; -1 stands for the error of
\* strconv.Atoi.
Atoi(s) ==
  IF Len(s) = 0 \/ \E i \in 1..Len(s) : Char(s, i) \notin DOMAIN DigitValue THEN -1
  ELSE LET val[i \in 0..Len(s)] ==
             IF i = 0 THEN 0 ELSE val[i - 1] * 10 + DigitValue[Char(s, i)]
       IN val[Len(s)]

UpperAlpha == "ABCDEFGHIJKLMNOPQRSTUVWXYZ"
LowerAlpha == "abcdefghijklmnopqrstuvwxyz"

\* unicode.ToLower and unicode.ToUpper on the ASCII letters.
LowerOf == [c \in {Char(UpperAlpha, i) : i \in 1..26} |->
              Char(LowerAlpha, CHOOSE i \in 1..26 : Char(UpperAlpha, i) = c)]
UpperOf == [c \in {Char(LowerAlpha, i) : i \in 1..26} |->
              Char(UpperAlpha, CHOOSE i \in 1..26 : Char(LowerAlpha, i) = c)]

ToLowerChar(c) == IF c \in DOMAIN LowerOf THEN LowerOf[c] ELSE c

ToUpperChar(c) == IF c \in DOMAIN UpperOf THEN UpperOf[c] ELSE c

\* strings.ToLower(s) on ASCII
ToLower(s) ==
  LET low[i \in 0..Len(s)] == IF i = 0 THEN "" ELSE low[i - 1] \o ToLowerChar(Char(s, i))
  IN low[Len(s)]

\* strings.EqualFold(a, b) on ASCII
EqualFold(a, b) ==
  /\ Len(a) = Len(b)
  /\ \A i \in 1..Len(a) : ToLowerChar(Char(a, i)) = ToLowerChar(Char(b, i))

\* cases.Title(language.English).String(s) of a one-word ASCII string:
\* the first letter upper-cased, the others lower-cased.
Title(s) ==
  IF Len(s) = 0 THEN s
  ELSE ToUpperChar(Char(s, 1)) \o ToLower(SubSeq(s, 2, Len(s)))

\* --------------------------------------------------------- cell references
\* The number of each column letter, A = 1.
LetterValue == [c \in {Char(UpperAlpha, i) : i \in 1..26} |->
                  CHOOSE i \in 1..26 : Char(UpperAlpha, i) = c]

IsLetter(c) == ToUpperChar(c) \in DOMAIN LetterValue

\* The number of leading letters of a cell name.
LettersLen(s) ==
  With({i \in 1..Len(s) : ~IsLetter(Char(s, i))},
       LAMBDA stops : IF stops = {} THEN Len(s) ELSE Least(stops) - 1)

\* ColumnNameToNumber: base-26 value of the letters, A = 1.
ColumnNameToNumber(name) ==
  LET val[i \in 0..Len(name)] ==
        IF i = 0 THEN 0
        ELSE val[i - 1] * 26 + LetterValue[ToUpperChar(Char(name, i))]
  IN val[Len(name)]

\* ColumnNumberToName
RECURSIVE ColumnNumberToName(_)
ColumnNumberToName(num) ==
  IF num <= 26 THEN Char(UpperAlpha, num)
  ELSE ColumnNumberToName((num - 1) \div 26) \o Char(UpperAlpha, ((num - 1) % 26) + 1)

\* CellNameToCoordinates(cell): [ok, col, row]
CellNameToCoordinates(cell) ==
  With(LettersLen(cell),
       LAMBDA n :
         With(Atoi(SubSeq(cell, n + 1, Len(cell))),
              LAMBDA row :
                IF n = 0 \/ row < 1
                THEN [ok |-> FALSE, col |-> 0, row |-> 0]
                ELSE [ok |-> TRUE, col |-> ColumnNameToNumber(SubSeq(cell, 1, n)),
                      row |-> row]))

\* CoordinatesToCellName(col, row)
CoordinatesToCellName(col, row) == ColumnNumberToName(col) \o Itoa(row)

\* rangeRefToCoordinates(ref): [err, c] with c = <<x1, y1, x2, y2>> as written.
rangeRefToCoordinates(ref) ==
  With(Split(ReplaceAll(ref, "$", ""), ":"),
       LAMBDA rng :
         IF Len(rng) < 2 THEN [err |-> ErrParameterInvalid, c |-> <<>>]
         ELSE With(<<CellNameToCoordinates(rng[1]), CellNameToCoordinates(rng[2])>>,
                   LAMBDA ab :
                     IF ~ab[1].ok \/ ~ab[2].ok
                     THEN [err |-> ErrParameterInvalid, c |-> <<>>]
                     ELSE [err |-> "",
                           c |-> <<ab[1].col, ab[1].row, ab[2].col, ab[2].row>>]))

\* Corners of which only the columns are put in order.
correctedColumns(x1, y1, x2, y2) ==
  <<IF x2 < x1 THEN x2 ELSE x1, y1, IF x2 < x1 THEN x1 ELSE x2, y2>>

\* Corners in one column.
sameColumn(c) == c[1] = c[3]

\* x1 == x2 && y1 == y2: both corners are one cell.
sameCell(c) == c[1] = c[3] /\ c[2] = c[4]

\* The corners x1, y1, x2, y2 with the top-left one first.
corrected(x1, y1, x2, y2) ==
  <<IF x2 < x1 THEN x2 ELSE x1, IF y2 < y1 THEN y2 ELSE y1,
    IF x2 < x1 THEN x1 ELSE x2, IF y2 < y1 THEN y1 ELSE y2>>

\* adjustRange(rangeStr): [err, sheet, c], c = <<x1, y1, x2, y2>> top-left
\* first.
adjustRange(rangeStr) ==
  IF Len(rangeStr) < 1
  THEN [err |-> ErrParameterRequired, sheet |-> "", c |-> <<>>]
  ELSE With(Split(rangeStr, "!"),
         LAMBDA rng :
           IF Len(rng) # 2
           THEN [err |-> ErrParameterInvalid, sheet |-> "", c |-> <<>>]
           ELSE With(rangeRefToCoordinates(ReplaceAll(rng[2], "$", "")),
                  LAMBDA co :
                    IF co.err # ""
                    THEN [err |-> co.err, sheet |-> rng[1], c |-> <<>>]
                    ELSE IF sameCell(co.c)
                    THEN [err |-> ErrParameterInvalid, sheet |-> rng[1], c |-> <<>>]
                    ELSE [err |-> "", sheet |-> rng[1],
                          c |-> corrected(co.c[1], co.c[2], co.c[3], co.c[4])]))

\* ------------------------------------------------------------------ state
VARIABLES
  cells,          \* worksheet cells: sheet name -> (cell name -> value)
  names,          \* named tables and defined names of the workbook
  Pkg,            \* f.Pkg: part path -> pivot cache / pivot table definition
  Relationships,  \* f.Relationships: .rels path -> list of relationships
  PivotCaches,    \* wb.PivotCaches: Nil, or Some(list of [CacheID, RID])
  ContentTypes,   \* content-type overrides: set of part names
  pool,           \* the specs a caller passes to AddPivotTable
  budget,         \* the successful AddPivotTable calls a behaviour may make
  log,            \* one entry per successful AddPivotTable call, in order
  deleted,        \* the number of successful DeletePivotTable calls
  calls,          \* the AddPivotTable calls of concurrent callers, in flight
  dd,             \* the DataValidation object a caller holds
  wsDataValidations, \* ws.DataValidations of each worksheet: Nil or Some
  last            \* the last call and what it returned

vars == <<cells, names, Pkg, Relationships, PivotCaches, ContentTypes,
          pool, budget, log, deleted, calls, dd, wsDataValidations, last>>

\* A Go pointer (or optional XML element): Nil or Some(v).
Nil == <<>>
Some(v) == <<v>>

\* The worksheets of the workbook, in order, and their XML parts.
GetSheetList == <<"Sheet1", "Sheet2">>

SheetXML == [Sheet1 |-> "xl/worksheets/sheet1.xml", Sheet2 |-> "xl/worksheets/sheet2.xml"]

\* getSheetXMLPath(sheet): [ok, path]
getSheetXMLPath(sheet) ==
  IF sheet \in DOMAIN SheetXML
  THEN [ok |-> TRUE, path |-> SheetXML[sheet]]
  ELSE [ok |-> FALSE, path |-> ""]

getWorkbookRelsPath == "xl/_rels/workbook.xml.rels"

ErrSheetNotExist(sheet) == "sheet " \o sheet \o " does not exist"
newNoExistTableError(name) == "table " \o name \o " does not exist"
newPivotTableDataRangeError(msg) == "parameter 'DataRange' parsing error: " \o msg
newPivotTableRangeError(msg) == "parameter 'PivotTableRange' parsing error: " \o msg

\* GetCellValue(sheet, cell): [err, value]; a cell never written reads "".
GetCellValue(sheet, cell) ==
  IF sheet \notin DOMAIN cells
  THEN [err |-> ErrSheetNotExist(sheet), value |-> ""]
  ELSE [err |-> "",
        value |-> IF cell \in DOMAIN cells[sheet] THEN cells[sheet][cell] ELSE ""]

\* GetTables(sheet): the named tables of a worksheet, in order.
GetTables(sheet) == SelectSeq(names.tables, LAMBDA t : t.sheet = sheet)

\* The tables of all sheets in the order getPivotTableDataRange scans them.
RECURSIVE AllTables(_)
AllTables(sheets) ==
  IF sheets = <<>> THEN <<>>
  ELSE GetTables(Head(sheets)) \o AllTables(Tail(sheets))

\* getDefinedNameRefTo(name, currentSheet): what the defined name refers to,
\* the worksheet scope taking precedence over the workbook scope; "" if none.
getDefinedNameRefTo(name, currentSheet) ==
  LET wb == SelectSeq(names.definedNames,
                      LAMBDA d : d.Name = name /\ d.Scope = "Workbook")
      ws == SelectSeq(names.definedNames,
                      LAMBDA d : d.Name = name /\ d.Scope = currentSheet)
      workbookRefTo == IF wb = <<>> THEN "" ELSE wb[Len(wb)].RefersTo
      worksheetRefTo == IF ws = <<>> THEN "" ELSE ws[Len(ws)].RefersTo
  IN IF worksheetRefTo # "" THEN worksheetRefTo ELSE workbookRefTo

\* ----------------------------------------------------- PivotTableOptions
ZeroField ==
  [Compact |-> FALSE, Data |-> "", Name |-> "", Outline |-> FALSE,
   Subtotal |-> "", DefaultSubtotal |-> FALSE]

\* A PivotTableOptions value as a caller builds it: the unexported fields zero.
Options(dataRange, pivotTableRange, name, rows, columns, data, filter) ==
  [pivotTableXML |-> "", pivotCacheXML |-> "", pivotSheetName |-> "",
   pivotDataRange |-> "", namedDataRange |-> FALSE,
   DataRange |-> dataRange, PivotTableRange |-> pivotTableRange, Name |-> name,
   Rows |-> rows, Columns |-> columns, Data |-> data, Filter |-> filter]

\* A resolution that asks the defined names before the named tables.
getPivotTableDataRangeNamesFirst(opts) ==
  IF opts.DataRange = ""
  THEN [err |-> newPivotTableDataRangeError(ErrParameterRequired), opts |-> opts]
  ELSE IF Contains(opts.DataRange, "!")
  THEN [err |-> "", opts |-> [opts EXCEPT !.pivotDataRange = opts.DataRange]]
  ELSE With(<<getDefinedNameRefTo(opts.DataRange, opts.pivotSheetName),
              SelectSeq(AllTables(GetSheetList), LAMBDA t : t.Name = opts.DataRange)>>,
         LAMBDA found :
           IF found[1] # ""
           THEN [err |-> "", opts |-> [opts EXCEPT !.pivotDataRange = found[1],
                                                   !.namedDataRange = TRUE]]
           ELSE IF found[2] # <<>>
           THEN [err |-> "",
                 opts |-> [opts EXCEPT
                             !.pivotDataRange = found[2][1].sheet \o "!" \o found[2][1].Range,
                             !.namedDataRange = TRUE]]
           ELSE [err |-> newPivotTableDataRangeError(ErrParameterInvalid), opts |-> opts])

\* getPivotTableDataRange(opts): [err, opts]
getPivotTableDataRange(opts) ==
  IF opts.DataRange = ""
  THEN [err |-> newPivotTableDataRangeError(ErrParameterRequired), opts |-> opts]
  ELSE IF opts.pivotDataRange # ""
  THEN [err |-> "", opts |-> opts]
  ELSE IF Contains(opts.DataRange, "!")
  THEN [err |-> "", opts |-> [opts EXCEPT !.pivotDataRange = opts.DataRange]]
  ELSE With(SelectSeq(AllTables(GetSheetList), LAMBDA t : t.Name = opts.DataRange),
         LAMBDA hit :
           IF hit # <<>>
           THEN [err |-> "",
                 opts |-> [opts EXCEPT
                             !.pivotDataRange = hit[1].sheet \o "!" \o hit[1].Range,
                             !.namedDataRange = TRUE]]
           ELSE IF opts.namedDataRange
           THEN [err |-> newPivotTableDataRangeError(ErrParameterInvalid), opts |-> opts]
           ELSE With(getDefinedNameRefTo(opts.DataRange, opts.pivotSheetName),
                  LAMBDA refTo :
                    IF refTo # ""
                    THEN [err |-> "",
                          opts |-> [opts EXCEPT !.pivotDataRange = refTo,
                                                !.namedDataRange = TRUE]]
                    ELSE [err |-> newPivotTableDataRangeError(ErrParameterInvalid),
                          opts |-> [opts EXCEPT !.pivotDataRange = refTo]]))

\* A loop over the header row that takes an empty cell for a name.
headerRowAnyCell(dataSheet, x1, x2, y1) ==
  With([i \in 1..(x2 - x1 + 1) |->
          GetCellValue(dataSheet, CoordinatesToCellName(x1 + i - 1, y1))],
       LAMBDA got :
         With({i \in 1..Len(got) : got[i].err # ""},
           LAMBDA stop :
             IF stop = {}
             THEN [err |-> "", order |-> [i \in 1..Len(got) |-> got[i].value]]
             ELSE [err |-> got[Least(stop)].err,
                   order |-> [i \in 1..(Least(stop) - 1) |-> got[i].value]]))

\* The loop of getTableFieldsOrder over the columns x1..x2 of row y1:
\* [err, order], the header cells left to right.
headerRow(dataSheet, x1, x2, y1) ==
  With([i \in 1..(x2 - x1 + 1) |->
          GetCellValue(dataSheet, CoordinatesToCellName(x1 + i - 1, y1))],
       LAMBDA got :
         With({i \in 1..Len(got) : got[i].err # "" \/ got[i].value = ""},
           LAMBDA stop :
             IF stop = {}
             THEN [err |-> "", order |-> [i \in 1..Len(got) |-> got[i].value]]
             ELSE [err |-> IF got[Least(stop)].err # "" THEN got[Least(stop)].err
                           ELSE ErrParameterInvalid,
                   order |-> [i \in 1..(Least(stop) - 1) |-> got[i].value]]))

\* getTableFieldsOrder(opts): [err, order, opts]
getTableFieldsOrder(opts) ==
  With(getPivotTableDataRange(opts),
    LAMBDA dr :
      IF dr.err # "" THEN [err |-> dr.err, order |-> <<>>, opts |-> dr.opts]
      ELSE With(adjustRange(dr.opts.pivotDataRange),
             LAMBDA adj :
               IF adj.err # ""
               THEN [err |-> newPivotTableDataRangeError(adj.err), order |-> <<>>,
                     opts |-> dr.opts]
               ELSE With(headerRow(adj.sheet, adj.c[1], adj.c[3], adj.c[2]),
                      LAMBDA h : [err |-> h.err, order |-> h.order, opts |-> dr.opts])))

\* ------------------------------------------------------ pivot cache part
\* A loop over the header that stops one name short.
cacheFieldsOfButLast(order) ==
  [i \in 1..(Len(order) - 1) |->
     [Name |-> order[i], SharedItems |-> [ContainsBlank |-> TRUE, M |-> 1]]]

\* The xlsxCacheField list of a header: one field per name, each with
\* SharedItems{ContainsBlank: true, M: [{}]}.
cacheFieldsOf(order) ==
  [i \in 1..Len(order) |->
     [Name |-> order[i], SharedItems |-> [ContainsBlank |-> TRUE, M |-> 1]]]

\* addPivotCache(opts): [err, pc], pc the xlsxPivotCacheDefinition that is
\* saved under opts.pivotCacheXML.
addPivotCache(opts) ==
  With(adjustRange(opts.pivotDataRange),
    LAMBDA adj :
      IF adj.err # ""
      THEN [err |-> newPivotTableDataRangeError(adj.err), pc |-> Nil]
      ELSE With(getTableFieldsOrder(opts),
             LAMBDA fo :
               IF fo.err # ""
               THEN [err |-> newPivotTableDataRangeError(fo.err), pc |-> Nil]
               ELSE LET topLeftCell == CoordinatesToCellName(adj.c[1], adj.c[2])
                        bottomRightCell == CoordinatesToCellName(adj.c[3], adj.c[4])
                    IN [err |-> "",
                        pc |-> Some([kind |-> "pivotCacheDefinition",
                                     CacheSource |->
                                       [Type |-> "worksheet",
                                        WorksheetSource |->
                                          IF opts.namedDataRange
                                          THEN [Ref |-> "", Sheet |-> "",
                                                Name |-> opts.DataRange]
                                          ELSE [Ref |-> topLeftCell \o ":" \o bottomRightCell,
                                                Sheet |-> adj.sheet, Name |-> ""]],
                                     CacheFields |->
                                       [Count |-> Len(cacheFieldsOf(fo.order)),
                                        CacheField |-> cacheFieldsOf(fo.order)]])]))

\* ------------------------------------------------------ pivot table part
\* inPivotTableField(a, x): 0-based position of the first element of a whose
\* Data is x, or -1.
inPivotTableField(a, x) ==
  With({i \in 1..Len(a) : a[i].Data = x},
       LAMBDA hits : IF hits = {} THEN -1 ELSE Least(hits) - 1)

\* inStrSlice(a, x, true): 0-based position of the first element equal to x,
\* or -1.
inStrSlice(a, x) ==
  With({i \in 1..Len(a) : a[i] = x},
       LAMBDA hits : IF hits = {} THEN -1 ELSE Least(hits) - 1)

\* A position test that takes the result -1 of a failed lookup for an index.
fieldFoundAlways(pos) == pos # -2

\* The position test of getPivotFieldsIndex: is a field with lookup result
\* pos given an index?
fieldFound(pos) == pos # -1

\* getPivotFieldsIndex(fields, opts): [err, index]
getPivotFieldsIndex(fields, opts) ==
  With(getTableFieldsOrder(opts),
    LAMBDA fo :
      IF fo.err # "" THEN [err |-> fo.err, index |-> <<>>]
      ELSE With([i \in 1..Len(fields) |-> inStrSlice(fo.order, fields[i].Data)],
             LAMBDA pos : [err |-> "",
                           index |-> SelectSeq(pos, LAMBDA x : fieldFound(x))]))

SubtotalEnums ==
  <<"average", "count", "countNums", "max", "min", "product", "stdDev",
    "stdDevp", "sum", "var", "varp">>

\* inEnums of getPivotTableFieldsSubtotal
inEnums(enums, val) ==
  With({i \in 1..Len(enums) : EqualFold(enums[i], val)},
       LAMBDA hits : IF hits = {} THEN "sum" ELSE enums[Least(hits)])

\* getPivotTableFieldsSubtotal(fields)
getPivotTableFieldsSubtotal(fields) ==
  [idx \in 1..Len(fields) |-> inEnums(SubtotalEnums, fields[idx].Subtotal)]

\* A name list that is never cut.
getPivotTableFieldsNameUncut(fields) ==
  [idx \in 1..Len(fields) |-> fields[idx].Name]

\* getPivotTableFieldsName(fields)
getPivotTableFieldsName(fields) ==
  [idx \in 1..Len(fields) |->
     IF Len(fields[idx].Name) > MaxFieldLength
     THEN SubSeq(fields[idx].Name, 1, MaxFieldLength)
     ELSE fields[idx].Name]

\* getPivotTableFieldName(name, fields)
getPivotTableFieldName(name, fields) ==
  With(inPivotTableField(fields, name),
       LAMBDA pos : IF pos = -1 THEN "" ELSE getPivotTableFieldsName(fields)[pos + 1])

\* getPivotTableFieldOptions(name, fields): [options, ok]
getPivotTableFieldOptions(name, fields) ==
  With(inPivotTableField(fields, name),
       LAMBDA pos : IF pos = -1 THEN [options |-> ZeroField, ok |-> FALSE]
                    ELSE [options |-> fields[pos + 1], ok |-> TRUE])

\* An item list that is the default item whatever the field's options.
axisItemsDefault(fo) == <<[T |-> "default", X |-> Nil]>>

\* The items of a row or column field: one explicit item with index x = 0,
\* or the default item.
axisItems(fo) ==
  IF ~fo.ok \/ ~fo.options.DefaultSubtotal
  THEN <<[T |-> "", X |-> Some(0)]>>
  ELSE <<[T |-> "default", X |-> Nil]>>

EmptyPivotField ==
  [Name |-> "", Axis |-> "", DataField |-> FALSE, Compact |-> Nil, Outline |-> Nil,
   DefaultSubtotal |-> Nil, Items |-> Nil]

\* A descriptor whose axis is decided with Filter before Rows.
pivotFieldOfFilterFirst(name, opts) ==
  [EmptyPivotField EXCEPT
     !.Axis = IF inPivotTableField(opts.Filter, name) # -1 THEN "axisPage"
              ELSE IF inPivotTableField(opts.Rows, name) # -1 THEN "axisRow"
              ELSE IF inPivotTableField(opts.Columns, name) # -1 THEN "axisCol"
              ELSE "",
     !.DataField = inPivotTableField(opts.Data, name) # -1]

\* One iteration of the loop of addPivotFields: the xlsxPivotField of the
\* header column called name.
pivotFieldOf(name, opts) ==
  IF inPivotTableField(opts.Rows, name) # -1
  THEN LET rowOptions == getPivotTableFieldOptions(name, opts.Rows)
           items == axisItems(rowOptions)
       IN [Name |-> getPivotTableFieldName(name, opts.Rows),
           Axis |-> "axisRow",
           DataField |-> inPivotTableField(opts.Data, name) # -1,
           Compact |-> Some(rowOptions.options.Compact),
           Outline |-> Some(rowOptions.options.Outline),
           DefaultSubtotal |-> Some(rowOptions.options.DefaultSubtotal),
           Items |-> Some([Count |-> Len(items), Item |-> items])]
  ELSE IF inPivotTableField(opts.Filter, name) # -1
  THEN [Name |-> getPivotTableFieldName(name, opts.Columns),
        Axis |-> "axisPage",
        DataField |-> inPivotTableField(opts.Data, name) # -1,
        Compact |-> Nil, Outline |-> Nil, DefaultSubtotal |-> Nil,
        Items |-> Some([Count |-> 1, Item |-> <<[T |-> "default", X |-> Nil]>>])]
  ELSE IF inPivotTableField(opts.Columns, name) # -1
  THEN LET columnOptions == getPivotTableFieldOptions(name, opts.Columns)
           items == axisItems(columnOptions)
       IN [Name |-> getPivotTableFieldName(name, opts.Columns),
           Axis |-> "axisCol",
           DataField |-> inPivotTableField(opts.Data, name) # -1,
           Compact |-> Some(columnOptions.options.Compact),
           Outline |-> Some(columnOptions.options.Outline),
           DefaultSubtotal |-> Some(columnOptions.options.DefaultSubtotal),
           Items |-> Some([Count |-> Len(items), Item |-> items])]
  ELSE IF inPivotTableField(opts.Data, name) # -1
  THEN [EmptyPivotField EXCEPT !.DataField = TRUE]
  ELSE EmptyPivotField

\* A descriptor list that leaves out the header columns which no list of the
\* spec names.
addPivotFieldsListed(opts) ==
  With(getTableFieldsOrder(opts),
    LAMBDA fo :
      IF fo.err # "" THEN [err |-> fo.err, PivotField |-> <<>>]
      ELSE [err |-> "",
            PivotField |->
              SelectSeq([i \in 1..Len(fo.order) |-> pivotFieldOf(fo.order[i], opts)],
                        LAMBDA pf : pf # EmptyPivotField)])

\* addPivotFields(pt, opts): [err, PivotField], the list appended to
\* pt.PivotFields.PivotField.
addPivotFields(opts) ==
  With(getTableFieldsOrder(opts),
    LAMBDA fo :
      IF fo.err # "" THEN [err |-> fo.err, PivotField |-> <<>>]
      ELSE [err |-> "",
            PivotField |-> [i \in 1..Len(fo.order) |-> pivotFieldOf(fo.order[i], opts)]])

\* addPivotRowFields(pt, opts): pt.RowFields
addPivotRowFields(opts) ==
  With(getPivotFieldsIndex(opts.Rows, opts),
    LAMBDA rowFieldsIndex :
      IF rowFieldsIndex.err # "" \/ rowFieldsIndex.index = <<>> THEN Nil
      ELSE Some([Count |-> Len(rowFieldsIndex.index),
                 Field |-> [i \in 1..Len(rowFieldsIndex.index) |->
                              [X |-> rowFieldsIndex.index[i]]]]))

\* A test that appends the values-axis entry for a single data field too.
needValuesAxisAny(nData) == nData > 0

\* Does addPivotColFields append the values-axis entry -2 for this many data
\* fields?
needValuesAxis(nData) == nData > 1

\* addPivotColFields(pt, opts): pt.ColFields
addPivotColFields(opts) ==
  IF Len(opts.Columns) = 0
  THEN IF ~needValuesAxis(Len(opts.Data)) THEN Nil
       ELSE Some([Count |-> 1, Field |-> <<[X |-> -2]>>])
  ELSE With(getPivotFieldsIndex(opts.Columns, opts),
         LAMBDA colFieldsIndex :
           IF colFieldsIndex.err # "" THEN Some([Count |-> 0, Field |-> <<>>])
           ELSE With([i \in 1..Len(colFieldsIndex.index) |->
                        [X |-> colFieldsIndex.index[i]]]
                     \o (IF needValuesAxis(Len(opts.Data)) THEN <<[X |-> -2]>> ELSE <<>>),
                  LAMBDA Field : Some([Count |-> Len(Field), Field |-> Field])))

\* addPivotPageFields(pt, opts): pt.PageFields
addPivotPageFields(opts) ==
  With(<<getPivotFieldsIndex(opts.Filter, opts), getPivotTableFieldsName(opts.Filter)>>,
    LAMBDA page :
      LET pageFieldsIndex == page[1]
          pageFieldsName == page[2]
      IN IF pageFieldsIndex.err # "" \/ pageFieldsIndex.index = <<>> THEN Nil
         ELSE Some([Count |-> Len(pageFieldsIndex.index),
                    PageField |-> [idx \in 1..Len(pageFieldsIndex.index) |->
                                     [Name |-> pageFieldsName[idx],
                                      Fld |-> pageFieldsIndex.index[idx]]]]))

\* addPivotDataFields(pt, opts): pt.DataFields
addPivotDataFields(opts) ==
  With(<<getPivotFieldsIndex(opts.Data, opts), getPivotTableFieldsSubtotal(opts.Data),
         getPivotTableFieldsName(opts.Data)>>,
    LAMBDA data :
      LET dataFieldsIndex == data[1]
          dataFieldsSubtotals == data[2]
          dataFieldsName == data[3]
      IN IF dataFieldsIndex.err # "" \/ dataFieldsIndex.index = <<>> THEN Nil
         ELSE Some([Count |-> Len(dataFieldsIndex.index),
                    DataField |-> [idx \in 1..Len(dataFieldsIndex.index) |->
                                     [Name |-> dataFieldsName[idx],
                                      Fld |-> dataFieldsIndex.index[idx],
                                      Subtotal |-> dataFieldsSubtotals[idx]]]]))

\* addPivotTable(cacheID, pivotTableID, opts): [err, pt], pt the
\* xlsxPivotTableDefinition that is saved under opts.pivotTableXML.
addPivotTable(cacheID, pivotTableID, opts) ==
  With(adjustRange(opts.PivotTableRange),
    LAMBDA adj :
      IF adj.err # "" THEN [err |-> newPivotTableRangeError(adj.err), pt |-> Nil]
      ELSE With(addPivotFields(opts),
             LAMBDA fields :
               LET topLeftCell == CoordinatesToCellName(adj.c[1], adj.c[2])
                   bottomRightCell == CoordinatesToCellName(adj.c[3], adj.c[4])
               IN [err |-> "",
                   pt |-> Some([kind |-> "pivotTableDefinition",
                                Name |-> IF opts.Name = ""
                                         THEN "PivotTable" \o Itoa(pivotTableID)
                                         ELSE opts.Name,
                                CacheID |-> cacheID,
                                Location |-> [Ref |-> topLeftCell \o ":" \o bottomRightCell],
                                PivotFields |-> [Count |-> Len(fields.PivotField),
                                                 PivotField |-> fields.PivotField],
                                RowFields |-> addPivotRowFields(opts),
                                ColFields |-> addPivotColFields(opts),
                                PageFields |-> addPivotPageFields(opts),
                                DataFields |-> addPivotDataFields(opts)])]))

\* ------------------------------------------- relationships and registry
\* relsReader(path): Nil when the package has no such relationships part.
relsReader(rels, path) == IF path \in DOMAIN rels THEN Some(rels[path]) ELSE Nil

\* The largest number n of an ID "rId<n>" in a list of relationships.
maxRID(list) ==
  LET m[i \in 0..Len(list)] ==
        IF i = 0 THEN 0
        ELSE With(<<Atoi(TrimPrefix(list[i].ID, "rId")), m[i - 1]>>,
                  LAMBDA p : IF p[1] > p[2] THEN p[1] ELSE p[2])
  IN m[Len(list)]

\* addRels(relPath, relType, target, ""): [rels, rID], the relationship
\* appended under the next free rId number.
addRels(rels, relPath, relType, target) ==
  With(IF relPath \in DOMAIN rels THEN rels[relPath] ELSE <<>>,
    LAMBDA list :
      With(maxRID(list) + 1,
        LAMBDA rID :
          [rels |-> (relPath :> Append(list, [ID |-> "rId" \o Itoa(rID),
                                              Type |-> relType,
                                              Target |-> target])) @@ rels,
           rID |-> rID]))

\* deleteWorkbookRels(relType, relTarget): [rels, rID], the workbook
\* relationships of that type and target removed; rID is "" if there was none.
deleteWorkbookRels(rels, relType, relTarget) ==
  With(IF getWorkbookRelsPath \in DOMAIN rels THEN rels[getWorkbookRelsPath] ELSE <<>>,
    LAMBDA list :
      With(SelectSeq(list, LAMBDA v : v.Type = relType /\ v.Target = relTarget),
        LAMBDA hit :
          [rels |-> IF getWorkbookRelsPath \in DOMAIN rels
                    THEN [rels EXCEPT ![getWorkbookRelsPath] =
                            SelectSeq(list, LAMBDA v : ~(v.Type = relType
                                                         /\ v.Target = relTarget))]
                    ELSE rels,
           rID |-> IF hit = <<>> THEN "" ELSE hit[Len(hit)].ID]))

\* The .rels part of a worksheet part.
sheetRelsPath(sheetXML) ==
  "xl/worksheets/_rels/" \o TrimPrefix(sheetXML, "xl/worksheets/") \o ".rels"

\* deleteSheetRelationships(sheet, rID): the relationship rID of the sheet
\* removed.
deleteSheetRelationships(rels, sheet, rID) ==
  With(getSheetXMLPath(sheet),
    LAMBDA name :
      With(sheetRelsPath(name.path),
        LAMBDA path :
          IF ~name.ok \/ path \notin DOMAIN rels THEN rels
          ELSE [rels EXCEPT ![path] = SelectSeq(rels[path], LAMBDA v : v.ID # rID)]))

\* addContentTypePart(index, contentType): the override of the new part.
addContentTypePart(types, index, contentType) ==
  types \cup {IF contentType = "pivotTable"
              THEN "/xl/pivotTables/pivotTable" \o Itoa(index) \o ".xml"
              ELSE "/xl/pivotCache/pivotCacheDefinition" \o Itoa(index) \o ".xml"}

\* saveFileList(name, content)
saveFileList(pkg, name, content) == (name :> content) @@ pkg

\* The count of the keys of f.Pkg that contain a path prefix.
countParts(pkg, prefix) == Cardinality({k \in DOMAIN pkg : Contains(k, prefix)})

\* A count whose prefix is too short: it takes in the cache parts as well.
countPivotParts(pkg) == countParts(pkg, "xl/pivot")

\* A count that sees no table part.
countPivotTablesNone(pkg) == 0

\* countPivotTables()
countPivotTables(pkg) == countParts(pkg, "xl/pivotTables/pivotTable")

\* A count whose prefix matches no key.
countPivotCacheNone(pkg) == countParts(pkg, "xl/pivotCaches/pivotCacheDefinition")

\* countPivotCache()
countPivotCache(pkg) == countParts(pkg, "xl/pivotCache/pivotCacheDefinition")

\* A scan that never takes a registered ID.
maxCacheIDUnscanned(list) == 1

\* The largest CacheID of the registry, and 1 if none is larger.
maxCacheID(list) ==
  LET m[i \in 0..Len(list)] ==
        IF i = 0 THEN 1
        ELSE With(m[i - 1],
                  LAMBDA rest : IF list[i].CacheID > rest THEN list[i].CacheID ELSE rest)
  IN m[Len(list)]

\* A registration that hands out a cache ID and leaves the registry as it was.
addWorkbookPivotCacheUnlisted(caches, RID) ==
  With(IF caches = Nil THEN <<>> ELSE caches[1],
    LAMBDA list : [caches |-> caches, cacheID |-> maxCacheID(list) + 1])

\* addWorkbookPivotCache(RID): [caches, cacheID]
addWorkbookPivotCache(caches, RID) ==
  With(IF caches = Nil THEN <<>> ELSE caches[1],
    LAMBDA list :
      With(maxCacheID(list) + 1,
        LAMBDA cacheID :
          [caches |-> Some(Append(list, [CacheID |-> cacheID,
                                         RID |-> "rId" \o Itoa(RID)])),
           cacheID |-> cacheID]))

\* -------------------------------------------------------- AddPivotTable
\* parseFormatPivotTableSet(opts): [err, opts, pivotTableSheetPath]; p is the
\* pointer the caller passes, Nil or Some(options).
parseFormatPivotTableSet(p) ==
  IF p = Nil THEN [err |-> ErrParameterRequired, opts |-> p, pivotTableSheetPath |-> ""]
  ELSE
  With(adjustRange(p[1].PivotTableRange),
    LAMBDA pr :
      IF pr.err # ""
      THEN [err |-> newPivotTableRangeError(pr.err), opts |-> p,
            pivotTableSheetPath |-> ""]
      ELSE IF Len(p[1].Name) > MaxFieldLength
      THEN [err |-> ErrNameLength, opts |-> p, pivotTableSheetPath |-> ""]
      ELSE
      With(getPivotTableDataRange([p[1] EXCEPT !.pivotSheetName = pr.sheet]),
        LAMBDA dr :
          IF dr.err # ""
          THEN [err |-> dr.err, opts |-> Some(dr.opts), pivotTableSheetPath |-> ""]
          ELSE
          With(<<adjustRange(dr.opts.pivotDataRange), getSheetXMLPath(pr.sheet)>>,
            LAMBDA q :
              LET da == q[1]
                  path == q[2]
              IN IF da.err # ""
                 THEN [err |-> newPivotTableDataRangeError(da.err),
                       opts |-> Some(dr.opts), pivotTableSheetPath |-> ""]
                 ELSE IF da.sheet \notin DOMAIN cells
                 THEN [err |-> ErrSheetNotExist(da.sheet),
                       opts |-> Some(dr.opts), pivotTableSheetPath |-> ""]
                 ELSE IF ~path.ok
                 THEN [err |-> ErrSheetNotExist(pr.sheet),
                       opts |-> Some(dr.opts), pivotTableSheetPath |-> ""]
                 ELSE [err |-> "", opts |-> Some(dr.opts),
                       pivotTableSheetPath |-> path.path])))

\* The document: the parts of the state a call reads and writes.
Doc(pkg, rels, caches, types) ==
  [Pkg |-> pkg, Relationships |-> rels, PivotCaches |-> caches, ContentTypes |-> types]

\* The part of AddPivotTable after the cache part is built: [err, opts, doc,
\* cacheID].
addPivotTableParts(d, v, opts, pc, pivotTableID, pivotCacheID, sheetRelationshipsPivotTableXML) ==
  With(addRels(d.Relationships, getWorkbookRelsPath, SourceRelationshipPivotCache,
               TrimPrefix(opts.pivotCacheXML, "xl/")),
    LAMBDA wbRel :
      With(<<addWorkbookPivotCache(d.PivotCaches, wbRel.rID),
             addRels(wbRel.rels,
                     "xl/pivotTables/_rels/pivotTable" \o Itoa(pivotTableID) \o ".xml.rels",
                     SourceRelationshipPivotCache,
                     "../pivotCache/pivotCacheDefinition" \o Itoa(pivotCacheID) \o ".xml"),
             saveFileList(d.Pkg, opts.pivotCacheXML, pc)>>,
        LAMBDA w :
          LET wbCache == w[1]
              ptRel == w[2]
              pkg1 == w[3]
          IN With(addPivotTable(wbCache.cacheID, pivotTableID, opts),
               LAMBDA pt :
                 IF pt.err # ""
                 THEN [err |-> pt.err, opts |-> Some(opts),
                       doc |-> Doc(pkg1, ptRel.rels, wbCache.caches, d.ContentTypes),
                       cacheID |-> wbCache.cacheID]
                 ELSE [err |-> "", opts |-> Some(opts),
                       doc |-> Doc(saveFileList(pkg1, opts.pivotTableXML, pt.pt[1]),
                                   addRels(ptRel.rels,
                                           sheetRelsPath(v.pivotTableSheetPath),
                                           SourceRelationshipPivotTable,
                                           sheetRelationshipsPivotTableXML).rels,
                                   wbCache.caches,
                                   addContentTypePart(
                                     addContentTypePart(d.ContentTypes, pivotTableID,
                                                        "pivotTable"),
                                     pivotCacheID, "pivotCache")),
                       cacheID |-> wbCache.cacheID])))

\* pivotTableID and pivotCacheID: one more than the parts counted.
nextOrdinals(pkg) == <<countPivotTables(pkg) + 1, countPivotCache(pkg) + 1>>

\* AddPivotTable from the part paths onward, on the checked spec v with the
\* ordinals id = <<pivotTableID, pivotCacheID>>: [err, opts, doc, cacheID].
addPivotTableAs(d, v, id) ==
  LET pivotTableID == id[1]
      pivotCacheID == id[2]
      sheetRelationshipsPivotTableXML ==
        "../pivotTables/pivotTable" \o Itoa(pivotTableID) \o ".xml"
  IN With([v.opts[1] EXCEPT
             !.pivotTableXML =
                ReplaceAll(sheetRelationshipsPivotTableXML, "..", "xl"),
             !.pivotCacheXML = "xl/pivotCache/pivotCacheDefinition"
                               \o Itoa(pivotCacheID) \o ".xml"],
       LAMBDA opts :
         With(addPivotCache(opts),
           LAMBDA pc :
             IF pc.err # ""
             THEN [err |-> pc.err, opts |-> Some(opts), doc |-> d, cacheID |-> 0]
             ELSE addPivotTableParts(d, v, opts, pc.pc[1], pivotTableID,
                                     pivotCacheID,
                                     sheetRelationshipsPivotTableXML)))

\* AddPivotTable(opts) on document d: [err, opts, doc, cacheID], doc the
\* document the call leaves and opts the caller's spec as the call leaves it.
doAddPivotTable(d, p) ==
  With(parseFormatPivotTableSet(p),
    LAMBDA v :
      IF v.err # "" THEN [err |-> v.err, opts |-> v.opts, doc |-> d, cacheID |-> 0]
      ELSE
      With(nextOrdinals(d.Pkg), LAMBDA id : addPivotTableAs(d, v, id)))

\* ------------------------------------------------------- GetPivotTables
PanicError == "panic: runtime error"

\* The value a *bool of the stored definition gives a bool option: the
\* option keeps its zero value when the pointer is nil.
boolOf(ptr) == IF ptr = Nil THEN FALSE ELSE ptr[1]

\* An extraction that copies the string fields and not the *bool fields.
extractPivotTableFieldStrings(data, fld) ==
  [Compact |-> FALSE, Data |-> data, Name |-> fld.Name,
   Outline |-> FALSE, Subtotal |-> "", DefaultSubtotal |-> FALSE]

\* extractPivotTableField(data, fld)
extractPivotTableField(data, fld) ==
  [Compact |-> boolOf(fld.Compact), Data |-> data, Name |-> fld.Name,
   Outline |-> boolOf(fld.Outline), Subtotal |-> "",
   DefaultSubtotal |-> boolOf(fld.DefaultSubtotal)]

\* An extraction that goes through the per-column descriptors from the last
\* to the first.
extractAxisBackwards(order, PivotField, axis) ==
  With(SelectSeq([i \in 1..Len(PivotField) |-> Len(PivotField) + 1 - i],
                 LAMBDA i : PivotField[i].Axis = axis),
    LAMBDA at :
      [k \in 1..Len(at) |-> extractPivotTableField(order[at[k]], PivotField[at[k]])])

\* The fields of one axis that extractPivotTableFields appends, in the order
\* of the per-column descriptors.
extractAxis(order, PivotField, axis) ==
  With(SelectSeq([i \in 1..Len(PivotField) |-> i], LAMBDA i : PivotField[i].Axis = axis),
    LAMBDA at :
      [k \in 1..Len(at) |-> extractPivotTableField(order[at[k]], PivotField[at[k]])])

\* The Data fields that extractPivotTableFields appends.
extractData(order, DataField) ==
  [k \in 1..Len(DataField) |->
     [ZeroField EXCEPT !.Data = order[DataField[k].Fld + 1],
                       !.Name = DataField[k].Name,
                       !.Subtotal = Title(DataField[k].Subtotal)]]

\* extractPivotTableFields(order, pt, opts): [err, opts]; indexing order
\* outside its bounds panics.
extractPivotTableFields(order, pt, opts) ==
  With(<<pt.PivotFields.PivotField,
         IF pt.DataFields = Nil THEN <<>> ELSE pt.DataFields[1].DataField>>,
    LAMBDA f :
      LET PivotField == f[1]
          DataField == f[2]
      IN IF ~(/\ \A i \in 1..Len(PivotField) :
                   PivotField[i].Axis \in {"axisRow", "axisCol", "axisPage"}
                     => i <= Len(order)
              /\ \A k \in 1..Len(DataField) :
                   DataField[k].Fld >= 0 /\ DataField[k].Fld < Len(order))
         THEN [err |-> PanicError, opts |-> opts]
         ELSE [err |-> "",
               opts |-> [opts EXCEPT
                           !.Rows = extractAxis(order, PivotField, "axisRow"),
                           !.Columns = extractAxis(order, PivotField, "axisCol"),
                           !.Filter = extractAxis(order, PivotField, "axisPage"),
                           !.Data = extractData(order, DataField)]])

\* The first pivot cache target of a table's relationships, as a part path.
cachePartOf(list) ==
  With(SelectSeq(list, LAMBDA v : v.Type = SourceRelationshipPivotCache),
    LAMBDA cacheRels :
      IF cacheRels = <<>> THEN "" ELSE ReplaceAll(cacheRels[1].Target, "..", "xl"))

\* The options getPivotTable fills in from the two parts before it reads the
\* header.
readPivotTable(sheet, pivotTableXML, pivotCacheXML, pc, pt) ==
  With([Options("", "", "", <<>>, <<>>, <<>>, <<>>) EXCEPT
          !.pivotTableXML = pivotTableXML,
          !.pivotCacheXML = pivotCacheXML,
          !.pivotSheetName = sheet,
          !.DataRange = pc.CacheSource.WorksheetSource.Sheet \o "!"
                        \o pc.CacheSource.WorksheetSource.Ref,
          !.PivotTableRange = sheet \o "!" \o pt.Location.Ref,
          !.Name = pt.Name],
    LAMBDA opts :
      IF pc.CacheSource.WorksheetSource.Name # ""
      THEN getPivotTableDataRange(
             [opts EXCEPT !.DataRange = pc.CacheSource.WorksheetSource.Name]).opts
      ELSE opts)

\* getPivotTable(sheet, pivotTableXML, pivotCacheRels): [err, opts]
getPivotTable(d, sheet, pivotTableXML, pivotCacheRels) ==
  With(relsReader(d.Relationships, pivotCacheRels),
    LAMBDA rels :
      IF rels = Nil
      THEN [err |-> PanicError, opts |-> Options("", "", "", <<>>, <<>>, <<>>, <<>>)]
      ELSE
      With(cachePartOf(rels[1]),
        LAMBDA pivotCacheXML :
          IF pivotCacheXML \notin DOMAIN d.Pkg \/ pivotTableXML \notin DOMAIN d.Pkg
          THEN [err |-> PanicError, opts |-> Options("", "", "", <<>>, <<>>, <<>>, <<>>)]
          ELSE
          With(getTableFieldsOrder(readPivotTable(sheet, pivotTableXML, pivotCacheXML,
                                                  d.Pkg[pivotCacheXML],
                                                  d.Pkg[pivotTableXML])),
            LAMBDA fo :
              IF fo.err # "" THEN [err |-> fo.err, opts |-> fo.opts]
              ELSE extractPivotTableFields(fo.order, d.Pkg[pivotTableXML], fo.opts))))

\* The loop of GetPivotTables over the relationships of the sheet: the specs
\* gathered up to the first error.
getPivotTablesFrom(d, sheet, sheetRels) ==
  With(SelectSeq(sheetRels, LAMBDA v : v.Type = SourceRelationshipPivotTable),
    LAMBDA tableRels :
      With([i \in 1..Len(tableRels) |->
              getPivotTable(d, sheet, ReplaceAll(tableRels[i].Target, "..", "xl"),
                            "xl/pivotTables/_rels/" \o Base(tableRels[i].Target)
                            \o ".rels")],
        LAMBDA got :
          With({i \in 1..Len(got) : got[i].err # ""},
            LAMBDA stop :
              IF stop = {}
              THEN [err |-> "", pivotTables |-> [i \in 1..Len(got) |-> got[i].opts]]
              ELSE [err |-> got[Least(stop)].err,
                    pivotTables |-> [i \in 1..(Least(stop) - 1) |-> got[i].opts]])))

\* GetPivotTables(sheet): [err, pivotTables]
GetPivotTables(d, sheet) ==
  With(getSheetXMLPath(sheet),
    LAMBDA name :
      IF ~name.ok THEN [err |-> ErrSheetNotExist(sheet), pivotTables |-> <<>>]
      ELSE With(relsReader(d.Relationships, sheetRelsPath(name.path)),
             LAMBDA sheetRels :
               getPivotTablesFrom(d, sheet,
                                  IF sheetRels = Nil THEN <<>> ELSE sheetRels[1])))

\* ----------------------------------------------------- DeletePivotTable
\* deleteWorkbookPivotCache(opt): [err, doc]
deleteWorkbookPivotCache(d, opt) ==
  With(deleteWorkbookRels(d.Relationships, SourceRelationshipPivotCache,
                          TrimPrefix(TrimPrefix(opt.pivotCacheXML, "/"), "xl/")),
    LAMBDA del :
      With(IF d.PivotCaches = Nil THEN <<>>
           ELSE SelectSeq(d.PivotCaches[1], LAMBDA pivotCache : pivotCache.RID # del.rID),
        LAMBDA kept :
          [err |-> "",
           doc |-> [d EXCEPT !.Relationships = del.rels,
                             !.PivotCaches = IF d.PivotCaches = Nil \/ kept = <<>>
                                             THEN Nil ELSE Some(kept)]]))

\* pivotTableCaches[pivotCacheXML] of DeletePivotTable: the tables that
\* GetPivotTables returns, over every sheet, for that cache part.
pivotTableCaches(d, sheets, pivotCacheXML) ==
  LET n[i \in 0..Len(sheets)] ==
        IF i = 0 THEN 0
        ELSE n[i - 1] + Len(SelectSeq(GetPivotTables(d, sheets[i]).pivotTables,
                                      LAMBDA o : o.pivotCacheXML = pivotCacheXML))
  IN n[Len(sheets)]

\* A test that takes every reference for the last one.
lastReferenceAny(count) == count >= 1

\* The test of DeletePivotTable on the reference count of the cache part.
lastReference(count) == count = 1

\* A match that compares the part path only and not the name.
deleteMatchesAnyName(sheetRels, opts, name) ==
  SelectSeq([n \in 1..(Len(sheetRels) * Len(opts)) |->
               [v |-> sheetRels[((n - 1) \div Len(opts)) + 1],
                opt |-> opts[((n - 1) % Len(opts)) + 1]]],
            LAMBDA m : /\ m.v.Type = SourceRelationshipPivotTable
                       /\ m.opt.pivotTableXML = ReplaceAll(m.v.Target, "..", "xl"))

\* The pairs (relationship v, spec opt) that the loops of DeletePivotTable
\* visit, in order, restricted to the matches of name.
deleteMatches(sheetRels, opts, name) ==
  SelectSeq([n \in 1..(Len(sheetRels) * Len(opts)) |->
               [v |-> sheetRels[((n - 1) \div Len(opts)) + 1],
                opt |-> opts[((n - 1) % Len(opts)) + 1]]],
            LAMBDA m : /\ m.v.Type = SourceRelationshipPivotTable
                       /\ m.opt.Name = name
                       /\ m.opt.pivotTableXML = ReplaceAll(m.v.Target, "..", "xl"))

\* A loop body that removes the sheet relationship only together with the
\* cache registration.
deleteFoundWhenLast(d, sheet, m) ==
  IF lastReference(pivotTableCaches(d, GetSheetList, m.opt.pivotCacheXML))
  THEN With(deleteWorkbookPivotCache(d, m.opt),
         LAMBDA del :
           [err |-> del.err,
            doc |-> [del.doc EXCEPT
                       !.Relationships =
                         deleteSheetRelationships(del.doc.Relationships, sheet, m.v.ID)]])
  ELSE [err |-> "", doc |-> d]

\* The body of the loops of DeletePivotTable at the first match m.
deleteFound(d, sheet, m) ==
  With(IF lastReference(pivotTableCaches(d, GetSheetList, m.opt.pivotCacheXML))
       THEN deleteWorkbookPivotCache(d, m.opt)
       ELSE [err |-> "", doc |-> d],
    LAMBDA del :
      [err |-> del.err,
       doc |-> [del.doc EXCEPT
                  !.Relationships =
                    deleteSheetRelationships(del.doc.Relationships, sheet, m.v.ID)]])

\* DeletePivotTable(sheet, name) on document d: [err, doc]
doDeletePivotTable(d, sheet, name) ==
  With(getSheetXMLPath(sheet),
    LAMBDA sheetXML :
      IF ~sheetXML.ok THEN [err |-> ErrSheetNotExist(sheet), doc |-> d]
      ELSE
      With(<<relsReader(d.Relationships, sheetRelsPath(sheetXML.path)),
             GetPivotTables(d, sheet)>>,
        LAMBDA r :
          LET sheetRels == IF r[1] = Nil THEN <<>> ELSE r[1][1]
              opts == r[2]
          IN IF opts.err # "" THEN [err |-> opts.err, doc |-> d]
             ELSE With(deleteMatches(sheetRels, opts.pivotTables, name),
                    LAMBDA found :
                      IF found = <<>> THEN [err |-> newNoExistTableError(name), doc |-> d]
                      ELSE deleteFound(d, sheet, found[1]))))

\* ------------------------------------------------------------ documents
EmptyMap == [k \in {} |-> k]

\* The cells of the workbook: on Sheet1 the header Month .. Region in row 1
\* and values under it, on Sheet2 a header with a repeated name in A1:C1 and
\* nothing in column D.
InitCells ==
  [Sheet1 |-> ("A1" :> "Month") @@ ("B1" :> "Year") @@ ("C1" :> "Type")
              @@ ("D1" :> "Sales") @@ ("E1" :> "Region")
              @@ ("A2" :> "Jan") @@ ("B2" :> "2017") @@ ("C2" :> "Meat")
              @@ ("D2" :> "4200") @@ ("E2" :> "East"),
   Sheet2 |-> ("A1" :> "Year") @@ ("B1" :> "Year") @@ ("C1" :> "Sales")
              @@ ("A2" :> "2018") @@ ("B2" :> "2019") @@ ("C2" :> "17")]

\* One named table and one defined name; a second defined name is spelled
\* like the table.
InitNames ==
  [tables |-> <<[sheet |-> "Sheet1", Name |-> "Table1", Range |-> "A1:C3"]>>,
   definedNames |->
     <<[Name |-> "SalesData", RefersTo |-> "Sheet1!$B$1:$D$9", Scope |-> "Workbook"],
       [Name |-> "Table1", RefersTo |-> "Sheet2!$A$1:$C$9", Scope |-> "Workbook"]>>]

\* A new workbook with two worksheets and no pivot parts.
NewFile ==
  Doc(EmptyMap,
      getWorkbookRelsPath :>
        <<[ID |-> "rId1", Type |-> SourceRelationshipWorkSheet, Target |-> "worksheets/sheet1.xml"],
          [ID |-> "rId2", Type |-> "theme", Target |-> "theme/theme1.xml"],
          [ID |-> "rId3", Type |-> "styles", Target |-> "styles.xml"],
          [ID |-> "rId4", Type |-> SourceRelationshipWorkSheet, Target |-> "worksheets/sheet2.xml"]>>,
      Nil,
      {"/xl/worksheets/sheet1.xml", "/xl/worksheets/sheet2.xml"})

\* The fields callers use; no header cell reads Profit.
fMonth == [ZeroField EXCEPT !.Data = "Month", !.DefaultSubtotal = TRUE]
fYear == [ZeroField EXCEPT !.Data = "Year", !.Name = "Yr", !.Compact = TRUE,
                           !.Outline = TRUE, !.Subtotal = "COUNTNUMS"]
fType == [ZeroField EXCEPT !.Data = "Type", !.DefaultSubtotal = TRUE]
fSales == [ZeroField EXCEPT !.Data = "Sales", !.Name = "Summarize", !.Subtotal = "Sum"]
fRegion == [ZeroField EXCEPT !.Data = "Region", !.Name = "Area"]
fProfit == [ZeroField EXCEPT !.Data = "Profit", !.Name = "P", !.Subtotal = "Max"]

\* The specs a caller passes in Spec and SpecShared: one over a rectangle, one
\* named "PT" over a named table, one whose data rectangle has an empty
\* header row.
SpecPool ==
  {Some(Options("Sheet1!$A$1:$E$31", "Sheet1!$G$2:$M$34", "",
                <<fMonth, fYear>>, <<fType>>, <<fSales>>, <<>>)),
   Some(Options("Table1", "Sheet2!A10:D20", "PT",
                <<fMonth>>, <<>>, <<fYear>>, <<>>)),
   Some(Options("Sheet1!A40:E41", "Sheet1!G2:M34", "",
                <<fMonth>>, <<>>, <<fSales>>, <<>>))}

\* The specs of SpecFields: every way to list at most MaxFieldEntries fields
\* of FieldUniverse in Rows, Columns, Filter and Data over one rectangle ...
FieldUniverse == {fMonth, fYear, fSales, fProfit}

FieldEntries == {"Rows", "Columns", "Filter", "Data"} \X FieldUniverse

listOf(es, axis) ==
  With(SelectSeq(es, LAMBDA e : e[1] = axis),
       LAMBDA at : [i \in 1..Len(at) |-> at[i][2]])

EnumeratedSpecs ==
  {Options("Sheet1!$A$1:$E$31", "Sheet1!$G$2:$M$34", "",
           listOf(es, "Rows"), listOf(es, "Columns"), listOf(es, "Data"),
           listOf(es, "Filter")) :
     es \in UNION {[1..n -> FieldEntries] : n \in 0..MaxFieldEntries}}

\* ... some longer lists ...
ExampleSpecs ==
  {Options("Sheet1!$A$1:$E$31", "Sheet1!$G$2:$M$34", "",
           <<fMonth, fYear>>, <<fType>>, <<fSales>>, <<fRegion>>),
   Options("Sheet1!$A$1:$E$31", "Sheet1!$G$2:$M$34", "",
           <<fYear, fMonth>>, <<fType>>, <<fSales, fRegion>>, <<>>),
   Options("Sheet1!$A$1:$E$31", "Sheet1!$G$2:$M$34", "",
           <<>>, <<fType, fMonth>>, <<fSales, fYear, fRegion>>, <<>>),
   Options("Sheet1!$A$1:$E$31", "Sheet2!$A$10:$C$12", "Sales by region",
           <<fRegion>>, <<fProfit, fType>>, <<fProfit, fSales>>, <<fMonth>>)}

\* ... and the other spellings of a data range: corners in any order, a one-row
\* rectangle, a one-column rectangle, a named table, a defined name, a header
\* with a repeated name, and headers with an empty cell.
DataRanges ==
  {"Sheet1!$E$31:$A$1", "Sheet1!A2:E1", "Sheet1!B1:E1", "Sheet1!D9:D1", "Table1",
   "SalesData", "Sheet2!A1:C5", "Sheet1!A1:F5", "Sheet1!A2:E3"}

RangeSpecs ==
  {Options(dataRange, "Sheet2!G2:M34", "", <<fYear>>, <<>>, <<fSales>>, <<>>) :
     dataRange \in DataRanges}

FieldPool == EnumeratedSpecs \cup ExampleSpecs \cup RangeSpecs

\* A document as a spreadsheet application saves it with two pivot tables,
\* PivotTable1 on Sheet1 and PT on Sheet2, that share one cache part.
SharedCacheFile ==
  With(doAddPivotTable(NewFile,
                       Some(Options("Sheet1!$A$1:$E$31", "Sheet1!$G$2:$M$34", "",
                                    <<fMonth>>, <<>>, <<fSales>>, <<>>))).doc,
    LAMBDA one :
      With(addRels(one.Relationships, "xl/pivotTables/_rels/pivotTable2.xml.rels",
                   SourceRelationshipPivotCache,
                   "../pivotCache/pivotCacheDefinition1.xml").rels,
        LAMBDA r1 :
          Doc(saveFileList(one.Pkg, "xl/pivotTables/pivotTable2.xml",
                           [one.Pkg["xl/pivotTables/pivotTable1.xml"]
                              EXCEPT !.Name = "PT"]),
              addRels(r1, sheetRelsPath(SheetXML["Sheet2"]), SourceRelationshipPivotTable,
                      "../pivotTables/pivotTable2.xml").rels,
              one.PivotCaches,
              addContentTypePart(one.ContentTypes, 2, "pivotTable"))))

CurrentDoc == Doc(Pkg, Relationships, PivotCaches, ContentTypes)

\* The names to try in DeletePivotTable: those of the stored table parts and
\* one that no table has.
TableNames(d) ==
  {d.Pkg[k].Name : k \in {k \in DOMAIN d.Pkg : d.Pkg[k].kind = "pivotTableDefinition"}}
  \cup {"NoSuchTable"}

SheetArgs == {"Sheet1", "Sheet2", "Sheet9"}

NoCall == [op |-> "Open", err |-> "", sheet |-> "", name |-> "", opts |-> Nil,
           pivotTables |-> <<>>]

\* NewDataValidation(allowBlank); a Go string of the object is the sequence
\* of its code points, <<>> the empty string.
NewDataValidation(allowBlank) ==
  [AllowBlank |-> allowBlank, ShowErrorMessage |-> FALSE, ShowInputMessage |-> FALSE,
   Formula1 |-> <<>>, Formula2 |-> <<>>, Type |-> "", Operator |-> "", Sqref |-> ""]

\* No worksheet has data validations.
NoDataValidations ==
  [sheet \in {GetSheetList[i] : i \in 1..Len(GetSheetList)} |-> Nil]

\* The callers that may call AddPivotTable at once, and what each holds:
\* nothing before its call (idle), the checked spec and the ordinals it
\* counted (counted), or the error it returned (done).
Callers == {"first", "second"}

NoCalls == [serialized |-> TRUE, of |-> [c \in Callers |-> [at |-> "idle"]]]

InitBook ==
  /\ cells = InitCells
  /\ names = InitNames

InitWith(d, specs, adds) ==
  /\ Pkg = d.Pkg
  /\ Relationships = d.Relationships
  /\ PivotCaches = d.PivotCaches
  /\ ContentTypes = d.ContentTypes
  /\ pool = specs
  /\ budget = adds
  /\ log = <<>>
  /\ deleted = 0
  /\ calls = NoCalls
  /\ dd = NewDataValidation(TRUE)
  /\ wsDataValidations = NoDataValidations
  /\ last = NoCall

\* A new workbook, and a caller with the specs of SpecPool.
Init == InitBook /\ InitWith(NewFile, SpecPool, MaxAdds)

\* An opened workbook whose two pivot tables share a cache.
InitShared == InitBook /\ InitWith(SharedCacheFile, SpecPool, 1)

\* A new workbook, and a caller with one spec of FieldPool.
InitFields == InitBook /\ \E o \in FieldPool : InitWith(NewFile, {Some(o)}, 1)

SetDoc(d) ==
  /\ Pkg' = d.Pkg
  /\ Relationships' = d.Relationships
  /\ PivotCaches' = d.PivotCaches
  /\ ContentTypes' = d.ContentTypes

\* The cache IDs of the workbook's registry.
registeredIDs(caches) ==
  IF caches = Nil THEN {} ELSE {caches[1][i].CacheID : i \in 1..Len(caches[1])}

\* What log keeps of a successful AddPivotTable call r on spec p: the spec as
\* given and as the call left it, the cache ID, the IDs registered when the
\* call began, and the two definitions it stored.
logEntry(p, r) ==
  [given |-> p[1], opts |-> r.opts[1], cacheID |-> r.cacheID,
   registered |-> registeredIDs(PivotCaches),
   pt |-> r.doc.Pkg[r.opts[1].pivotTableXML],
   pc |-> r.doc.Pkg[r.opts[1].pivotCacheXML]]

\* f.AddPivotTable(opts)
AddPivotTable ==
  /\ Len(log) < budget
  /\ \E p \in pool :
       \E r \in {doAddPivotTable(CurrentDoc, p)} :
          /\ SetDoc(r.doc)
          /\ log' = IF r.err = "" THEN Append(log, logEntry(p, r)) ELSE log
          /\ last' = [NoCall EXCEPT !.op = "AddPivotTable", !.err = r.err, !.opts = p]
  /\ UNCHANGED <<cells, names, calls, dd, wsDataValidations, pool, budget, deleted>>

\* f.GetPivotTables(sheet)
GetPivotTablesCall ==
  /\ \E sheet \in SheetArgs :
       \E r \in {GetPivotTables(CurrentDoc, sheet)} :
          last' = [NoCall EXCEPT !.op = "GetPivotTables", !.err = r.err,
                                 !.sheet = sheet, !.pivotTables = r.pivotTables]
  /\ UNCHANGED <<cells, names, calls, dd, wsDataValidations, Pkg, Relationships, PivotCaches, ContentTypes,
                 pool, budget, log, deleted>>

\* f.DeletePivotTable(sheet, name)
DeletePivotTable ==
  /\ \E sheet \in SheetArgs, name \in TableNames(CurrentDoc) :
       \E r \in {doDeletePivotTable(CurrentDoc, sheet, name)} :
          /\ SetDoc(r.doc)
          /\ deleted' = IF r.err = "" THEN deleted + 1 ELSE deleted
          /\ last' = [NoCall EXCEPT !.op = "DeletePivotTable", !.err = r.err,
                                    !.sheet = sheet, !.name = name]
  /\ UNCHANGED <<cells, names, calls, dd, wsDataValidations, pool, budget, log>>

Next == AddPivotTable \/ GetPivotTablesCall \/ DeletePivotTable

Spec == Init /\ [][Next]_vars

SpecShared == InitShared /\ [][Next]_vars

NextFields == AddPivotTable \/ GetPivotTablesCall

SpecFields == InitFields /\ [][NextFields]_vars

\* ------------------------------------------------------------ properties
\* The elements of a sequence.
Range(seq) == {seq[i] : i \in 1..Len(seq)}

\* A sequence without its i-th element.
Without(seq, i) == SubSeq(seq, 1, i - 1) \o SubSeq(seq, i + 1, Len(seq))

\* The relationships of a .rels part, none if the part is absent.
relsOf(d, path) == IF path \in DOMAIN d.Relationships THEN d.Relationships[path] ELSE <<>>

\* The sheet->table relationships of a worksheet, in order.
tableRels(d, sheet) ==
  SelectSeq(relsOf(d, sheetRelsPath(SheetXML[sheet])),
            LAMBDA v : v.Type = SourceRelationshipPivotTable)

\* The table part that a sheet->table relationship targets.
tablePartOf(v) == "xl/pivotTables/" \o Base(v.Target)

\* The cache parts that the relationship file of a table part targets.
cachePartsOf(d, tablePart) ==
  {"xl/pivotCache/" \o Base(r.Target) :
     r \in {r \in Range(relsOf(d, "xl/pivotTables/_rels/" \o Base(tablePart) \o ".rels")) :
              r.Type = SourceRelationshipPivotCache}}

\* The tables linked from the sheets: pairs of a sheet and a relationship.
linked(d) ==
  UNION {{<<sheet, v>> : v \in Range(tableRels(d, sheet))} : sheet \in Range(GetSheetList)}

\* The number of linked tables whose relationship file targets a cache part.
refCount(d, cachePart) ==
  Cardinality({l \in linked(d) : cachePart \in cachePartsOf(d, tablePartOf(l[2]))})

\* The workbook relationships that target a cache part, and the registry
\* entries that go with them.
cacheRels(d, cachePart) ==
  {r \in Range(relsOf(d, getWorkbookRelsPath)) :
     r.Type = SourceRelationshipPivotCache /\ r.Target = TrimPrefix(cachePart, "xl/")}

registry(d) == IF d.PivotCaches = Nil THEN <<>> ELSE d.PivotCaches[1]

registrations(d, cachePart) ==
  {e \in Range(registry(d)) : \E r \in cacheRels(d, cachePart) : r.ID = e.RID}

\* The stored parts of each kind.
partsOfKind(pkg, kind) == {k \in DOMAIN pkg : pkg[k].kind = kind}

namedOn(d, sheet, name) ==
  {v \in Range(tableRels(d, sheet)) :
     tablePartOf(v) \in DOMAIN d.Pkg /\ d.Pkg[tablePartOf(v)].Name = name}

\* C2: DeletePivotTable(sheet, name) on an existing sheet without a table of
\* that name returns the no-such-table error and leaves every part,
\* relationship, registry entry and content type as it was.
C2_NoSuchTableChangesNothing ==
  [][(/\ last'.op = "DeletePivotTable"
      /\ last'.sheet \in DOMAIN SheetXML
      /\ namedOn(CurrentDoc, last'.sheet, last'.name) = {})
     => /\ last'.err = newNoExistTableError(last'.name)
        /\ Pkg' = Pkg /\ Relationships' = Relationships
        /\ PivotCaches' = PivotCaches /\ ContentTypes' = ContentTypes]_vars

\* A name that no table of the sheet has was refused while the sheet has
\* tables.
C2_Witness ==
  /\ last.op = "DeletePivotTable"
  /\ last.sheet \in DOMAIN SheetXML
  /\ tableRels(CurrentDoc, last.sheet) # <<>>
  /\ namedOn(CurrentDoc, last.sheet, last.name) = {}
  /\ last.err = newNoExistTableError(last.name)

\* C3: a successful DeletePivotTable(sheet, name) removes exactly one
\* sheet->table relationship, that of a table of the sheet with that name,
\* and nothing else of the sheets' relationships, shared cache or not;
\* GetPivotTables(sheet) then returns the same specs without that one, and
\* the specs of every other sheet are the same.
C3_ExactlyOneRelationshipRemoved ==
  [][(last'.op = "DeletePivotTable" /\ last'.err = "") =>
       LET sheet == last'.sheet
           before == tableRels(CurrentDoc, sheet)
           gone == {i \in 1..Len(before) : before[i] \notin Range(tableRels(CurrentDoc', sheet))}
       IN /\ Cardinality(gone) = 1
          /\ Pkg' = Pkg
          /\ \A path \in DOMAIN Relationships :
               path \notin {sheetRelsPath(SheetXML[sheet]), getWorkbookRelsPath}
                 => relsOf(CurrentDoc', path) = Relationships[path]
          /\ GetPivotTables(CurrentDoc, sheet).err = ""
          /\ GetPivotTables(CurrentDoc', sheet).err = ""
          /\ \A i \in gone :
               /\ relsOf(CurrentDoc', sheetRelsPath(SheetXML[sheet]))
                    = SelectSeq(Relationships[sheetRelsPath(SheetXML[sheet])],
                                LAMBDA v : v # before[i])
               /\ Pkg[tablePartOf(before[i])].Name = last'.name
               /\ GetPivotTables(CurrentDoc', sheet).pivotTables
                    = Without(GetPivotTables(CurrentDoc, sheet).pivotTables, i)
          /\ \A other \in Range(GetSheetList) \ {sheet} :
               GetPivotTables(CurrentDoc', other) = GetPivotTables(CurrentDoc, other)]_vars

\* One of two tables called PT on Sheet2 has been deleted: the other, added
\* by AddPivotTable, is still returned.
C3_Witness ==
  /\ last.op = "DeletePivotTable" /\ last.err = ""
  /\ last.sheet = "Sheet2" /\ last.name = "PT"
  /\ Len(log) = 1
  /\ Len(tableRels(CurrentDoc, "Sheet2")) = 1
  /\ namedOn(CurrentDoc, "Sheet2", "PT") # {}
  /\ refCount(CurrentDoc, "xl/pivotCache/pivotCacheDefinition1.xml") = 1

\* The part paths of ordinal k.
tablePath(k) == "xl/pivotTables/pivotTable" \o Itoa(k) \o ".xml"

cachePath(k) == "xl/pivotCache/pivotCacheDefinition" \o Itoa(k) \o ".xml"

\* C4: on a document that starts without pivot parts the k-th successful
\* AddPivotTable writes its table part and its cache part under ordinal k,
\* and every part written is still stored as it was written, whatever
\* DeletePivotTable calls came between: the store holds exactly the parts of
\* the ordinals 1..k.
C4_OrdinalsAllocatedOnce ==
  /\ \A k \in 1..Len(log) :
       /\ log[k].opts.pivotTableXML = tablePath(k)
       /\ log[k].opts.pivotCacheXML = cachePath(k)
       /\ tablePath(k) \in DOMAIN Pkg /\ Pkg[tablePath(k)] = log[k].pt
       /\ cachePath(k) \in DOMAIN Pkg /\ Pkg[cachePath(k)] = log[k].pc
  /\ DOMAIN Pkg = {tablePath(k) : k \in 1..Len(log)} \cup {cachePath(k) : k \in 1..Len(log)}
  /\ Cardinality(DOMAIN Pkg) = 2 * Len(log)

\* A second table has been added after the first was deleted and its cache
\* registration removed: ordinal 1 was not taken again.
C4_Witness ==
  /\ Len(log) = 2 /\ deleted >= 1
  /\ log[2].registered = {}
  /\ linked(CurrentDoc) # {}
  /\ \A l \in linked(CurrentDoc) : tablePartOf(l[2]) = tablePath(2)
  /\ cachePath(1) \in DOMAIN Pkg

\* C5 as stated: the cache ID of an AddPivotTable call, which the new table
\* definition stores, is greater than the cache ID of every earlier call.
C5_CacheIDsNeverReclaimed ==
  \A i, j \in 1..Len(log) :
    i < j => log[j].cacheID > log[i].cacheID /\ log[j].pt.CacheID = log[j].cacheID

\* C5: the cache ID of an AddPivotTable call, which the new table definition
\* stores, is greater than every cache ID registered in the workbook when the
\* call is made, and greater than the cache ID of every earlier call as long
\* as no DeletePivotTable call has succeeded.
C5_CacheIDAboveRegistered ==
  /\ \A k \in 1..Len(log) :
       /\ \A id \in log[k].registered : log[k].cacheID > id
       /\ log[k].pt.CacheID = log[k].cacheID
       /\ log[k].cacheID >= 2
  /\ deleted = 0 =>
       \A i, j \in 1..Len(log) : i < j => log[j].cacheID > log[i].cacheID

\* The only registration was deleted and the next AddPivotTable call has
\* been given the cache ID of the first.
C5_Witness ==
  /\ Len(log) = 2 /\ deleted >= 1
  /\ log[2].registered = {}
  /\ log[2].cacheID = log[1].cacheID
  /\ log[2].cacheID \in registeredIDs(PivotCaches)

\* C6: a successful AddPivotTable stores one new table part and one new
\* cache part and changes no stored part, appends one registration with an
\* unregistered cache ID, and links the new table part to the new cache part
\* alone; so the store holds as many table parts and cache parts as calls
\* have succeeded, the registry as many entries less the deleted ones, and
\* while nothing was deleted the tables have pairwise distinct cache parts
\* and cache IDs, identical data ranges or not.
C6_FreshCachePerAdd ==
  /\ [][(last'.op = "AddPivotTable" /\ last'.err = "") =>
          LET newTables == partsOfKind(Pkg', "pivotTableDefinition") \ DOMAIN Pkg
              newCaches == partsOfKind(Pkg', "pivotCacheDefinition") \ DOMAIN Pkg
              old == registry(CurrentDoc)
              new == registry(CurrentDoc')
          IN /\ Cardinality(newTables) = 1 /\ Cardinality(newCaches) = 1
             /\ DOMAIN Pkg' = DOMAIN Pkg \cup newTables \cup newCaches
             /\ \A k \in DOMAIN Pkg : Pkg'[k] = Pkg[k]
             /\ Len(new) = Len(old) + 1
             /\ SubSeq(new, 1, Len(old)) = old
             /\ new[Len(new)].CacheID \notin registeredIDs(PivotCaches)
             /\ \A t \in newTables :
                  /\ cachePartsOf(CurrentDoc', t) = newCaches
                  /\ Pkg'[t].CacheID = new[Len(new)].CacheID
                  /\ \A c \in newCaches :
                       /\ registrations(CurrentDoc', c) = {new[Len(new)]}
                       /\ refCount(CurrentDoc', c) = 1]_vars
  /\ [](/\ Cardinality(partsOfKind(Pkg, "pivotTableDefinition")) = Len(log)
        /\ Cardinality(partsOfKind(Pkg, "pivotCacheDefinition")) = Len(log)
        /\ Len(registry(CurrentDoc)) = Len(log) - deleted
        /\ deleted = 0 =>
             /\ Cardinality(registeredIDs(PivotCaches)) = Len(log)
             /\ \A i, j \in 1..Len(log) :
                  i # j => /\ log[i].opts.pivotCacheXML # log[j].opts.pivotCacheXML
                           /\ log[i].cacheID # log[j].cacheID
             /\ \A i \in 1..Len(log) :
                  /\ cachePartsOf(CurrentDoc, log[i].opts.pivotTableXML)
                       = {log[i].opts.pivotCacheXML}
                  /\ Pkg[log[i].opts.pivotTableXML].CacheID = log[i].cacheID
                  /\ log[i].cacheID \in registeredIDs(PivotCaches))

\* The same spec has been added twice and nothing deleted: two cache parts
\* with the same source, two registrations.
C6_Witness ==
  /\ last.op = "AddPivotTable" /\ last.err = ""
  /\ Len(log) = 2 /\ deleted = 0
  /\ log[1].given = log[2].given
  /\ Pkg[cachePath(1)] = Pkg[cachePath(2)]
  /\ Len(registry(CurrentDoc)) = 2

\* ------------------------------------------------- what the workbook holds
\* The source each data range of FieldPool stands for, read off InitCells and
\* InitNames by hand: the sheet and rectangle, or the name, and the cells of
\* the first row of the rectangle from left to right.
SheetHeader == <<"Month", "Year", "Type", "Sales", "Region">>

Rectangle(sheet, ref, header) ==
  [Sheet |-> sheet, Ref |-> ref, Name |-> "", header |-> header]

Named(name, header) == [Sheet |-> "", Ref |-> "", Name |-> name, header |-> header]

ExpectedSource ==
  ("Sheet1!$A$1:$E$31" :> Rectangle("Sheet1", "A1:E31", SheetHeader))
  @@ ("Sheet1!$E$31:$A$1" :> Rectangle("Sheet1", "A1:E31", SheetHeader))
  @@ ("Sheet1!A2:E1" :> Rectangle("Sheet1", "A1:E2", SheetHeader))
  @@ ("Sheet1!B1:E1" :> Rectangle("Sheet1", "B1:E1", <<"Year", "Type", "Sales", "Region">>))
  @@ ("Sheet1!D9:D1" :> Rectangle("Sheet1", "D1:D9", <<"Sales">>))
  @@ ("Table1" :> Named("Table1", <<"Month", "Year", "Type">>))
  @@ ("SalesData" :> Named("SalesData", <<"Year", "Type", "Sales">>))
  @@ ("Sheet2!A1:C5" :> Rectangle("Sheet2", "A1:C5", <<"Year", "Year", "Sales">>))
  @@ ("Sheet1!A1:F5" :> Rectangle("Sheet1", "A1:F5", SheetHeader \o <<"">>))
  @@ ("Sheet1!A2:E3" :> Rectangle("Sheet1", "A2:E3", <<"Jan", "2017", "Meat", "4200", "East">>))

\* The worksheet of each pivot table range of FieldPool.
ExpectedSheet ==
  ("Sheet1!$G$2:$M$34" :> "Sheet1") @@ ("Sheet2!$A$10:$C$12" :> "Sheet2")
  @@ ("Sheet2!G2:M34" :> "Sheet2")

\* What GetPivotTables reports for each subtotal a caller of FieldPool asks.
ExpectedSubtotal ==
  ("" :> "Sum") @@ ("Sum" :> "Sum") @@ ("COUNTNUMS" :> "Countnums") @@ ("Max" :> "Max")

\* The header names of a field list, and the 0-based header indices of those
\* of its fields that the header has, in the list's order.
namesOf(fields) == {fields[i].Data : i \in 1..Len(fields)}

indexIn(header, name) == (CHOOSE i \in 1..Len(header) :
                            header[i] = name /\ \A j \in 1..(i - 1) : header[j] # name) - 1

indicesOf(header, fields) ==
  With(SelectSeq(fields, LAMBDA fld : fld.Data \in Range(header)),
       LAMBDA present : [i \in 1..Len(present) |-> indexIn(header, present[i].Data)])

headerOf(g) == ExpectedSource[g.DataRange].header

\* The premise of the round trip: a header of distinct non-empty names, every
\* field a header column, every field in one list only.
RoundTrips(g) ==
  /\ "" \notin Range(headerOf(g))
  /\ Cardinality(Range(headerOf(g))) = Len(headerOf(g))
  /\ namesOf(g.Rows) \cup namesOf(g.Columns) \cup namesOf(g.Filter) \cup namesOf(g.Data)
       \subseteq Range(headerOf(g))
  /\ \A a, b \in {<<"Rows", g.Rows>>, <<"Columns", g.Columns>>, <<"Filter", g.Filter>>,
                  <<"Data", g.Data>>} :
       a[1] # b[1] => namesOf(a[2]) \cap namesOf(b[2]) = {}

\* Do the fields got carry the DefaultSubtotal flags of the fields given?
sameDefaultSubtotal(got, given) ==
  \A r \in Range(got) : \A x \in Range(given) :
    x.Data = r.Data => r.DefaultSubtotal = x.DefaultSubtotal

\* C7: after AddPivotTable of a spec that meets the premise, GetPivotTables
\* on the target sheet returns one spec, with the Rows, Filter, Columns and
\* Data names of the spec given, the DefaultSubtotal flags of its row and
\* column fields, and for each data field the subtotal asked for in title
\* case ("Sum" for "Sum" and for none).
C7_RoundTrip ==
  (/\ last.op = "GetPivotTables" /\ Len(log) = 1
   /\ RoundTrips(log[1].given)
   /\ last.sheet = ExpectedSheet[log[1].given.PivotTableRange])
  => /\ last.err = ""
     /\ Len(last.pivotTables) = 1
     /\ LET got == last.pivotTables[1]
            given == log[1].given
        IN /\ namesOf(got.Rows) = namesOf(given.Rows)
           /\ namesOf(got.Filter) = namesOf(given.Filter)
           /\ namesOf(got.Columns) = namesOf(given.Columns)
           /\ namesOf(got.Data) = namesOf(given.Data)
           /\ sameDefaultSubtotal(got.Rows, given.Rows)
           /\ sameDefaultSubtotal(got.Columns, given.Columns)
           /\ Len(got.Data) = Len(given.Data)
           /\ \A i \in 1..Len(got.Data) :
                /\ got.Data[i].Data = given.Data[i].Data
                /\ got.Data[i].Subtotal = ExpectedSubtotal[given.Data[i].Subtotal]

\* A spec with fields in all four lists has been added and read back.
C7_Witness ==
  /\ last.op = "GetPivotTables" /\ last.err = "" /\ Len(log) = 1
  /\ log[1].given.Rows = <<fMonth, fYear>> /\ log[1].given.Filter = <<fRegion>>
  /\ RoundTrips(log[1].given)
  /\ Len(last.pivotTables) = 1
  /\ namesOf(last.pivotTables[1].Rows) = {"Month", "Year"}
  /\ last.pivotTables[1].Data[1].Subtotal = "Sum"
  /\ \E r \in Range(last.pivotTables[1].Rows) : r.Data = "Month" /\ r.DefaultSubtotal

\* C8: the cache definition that a successful AddPivotTable writes has one
\* cache field per cell of the header row of the data rectangle, none of them
\* empty, named by the cells from left to right and marked as containing
\* blanks, with the count attribute their number; its source is the
\* rectangle with ordered corners and no $ and its sheet, or the name alone
\* when the data range is a table name or a defined name.
C8_CacheFieldsFollowHeader ==
  \A k \in 1..Len(log) :
    LET expected == ExpectedSource[log[k].given.DataRange]
        pc == Pkg[log[k].opts.pivotCacheXML]
    IN /\ "" \notin Range(expected.header)
       /\ pc = log[k].pc
       /\ pc.CacheFields.Count = Len(expected.header)
       /\ Len(pc.CacheFields.CacheField) = Len(expected.header)
       /\ \A i \in 1..Len(expected.header) :
            /\ pc.CacheFields.CacheField[i].Name = expected.header[i]
            /\ pc.CacheFields.CacheField[i].SharedItems.ContainsBlank
       /\ pc.CacheSource.WorksheetSource.Ref = expected.Ref
       /\ pc.CacheSource.WorksheetSource.Sheet = expected.Sheet
       /\ pc.CacheSource.WorksheetSource.Name = expected.Name

\* A rectangle given bottom-right corner first has been stored as A1:E31 with
\* five cache fields.
C8_Witness ==
  /\ last.op = "AddPivotTable" /\ last.err = "" /\ Len(log) = 1
  /\ log[1].given.DataRange = "Sheet1!$E$31:$A$1"
  /\ Pkg[cachePath(1)].CacheFields.Count = 5
  /\ Pkg[cachePath(1)].CacheFields.CacheField[5].Name = "Region"
  /\ Pkg[cachePath(1)].CacheSource.WorksheetSource.Ref = "A1:E31"

\* The indices X of an axis list of the table definition.
axisIndices(list) == [i \in 1..Len(list[1].Field) |-> list[1].Field[i].X]

\* C9: without column fields in the spec the table has no ColFields for at
\* most one data field in the spec and ColFields [-2] with count 1 for two or
\* more; with column fields ColFields holds their header indices in the
\* spec's order, then one -2 exactly when the spec has two or more data
\* fields, and its count is its length. No other axis list holds -2.
C9_ColumnFieldSynthesis ==
  \A k \in 1..Len(log) :
    LET given == log[k].given
        pt == Pkg[log[k].opts.pivotTableXML]
        values == IF Len(given.Data) >= 2 THEN <<-2>> ELSE <<>>
    IN /\ (given.Columns = <<>> /\ Len(given.Data) <= 1) => pt.ColFields = Nil
       /\ (given.Columns = <<>> /\ Len(given.Data) >= 2)
            => pt.ColFields = Some([Count |-> 1, Field |-> <<[X |-> -2]>>])
       /\ given.Columns # <<>>
            => /\ pt.ColFields # Nil
               /\ axisIndices(pt.ColFields)
                    = indicesOf(headerOf(given), given.Columns) \o values
               /\ pt.ColFields[1].Count = Len(pt.ColFields[1].Field)
       /\ pt.RowFields # Nil => -2 \notin Range(axisIndices(pt.RowFields))
       /\ pt.PageFields # Nil
            => \A i \in 1..Len(pt.PageFields[1].PageField) :
                 pt.PageFields[1].PageField[i].Fld # -2
       /\ pt.DataFields # Nil
            => \A i \in 1..Len(pt.DataFields[1].DataField) :
                 pt.DataFields[1].DataField[i].Fld # -2

\* Two column fields and three data fields have given ColFields [2, 0, -2].
C9_Witness ==
  /\ last.op = "AddPivotTable" /\ last.err = "" /\ Len(log) = 1
  /\ log[1].given.Columns = <<fType, fMonth>> /\ Len(log[1].given.Data) = 3
  /\ Pkg[tablePath(1)].ColFields
       = Some([Count |-> 3, Field |-> <<[X |-> 2], [X |-> 0], [X |-> -2]>>])

\* Does a spec name a field that the header of its data range lacks?
namesAbsentField(g) ==
  ~(namesOf(g.Rows) \cup namesOf(g.Columns) \cup namesOf(g.Filter) \cup namesOf(g.Data)
      \subseteq Range(headerOf(g)))

isDataRangeError(err) ==
  Len(err) >= Len(newPivotTableDataRangeError(""))
  /\ SubSeq(err, 1, Len(newPivotTableDataRangeError(""))) = newPivotTableDataRangeError("")

RECURSIVE Repeat(_, _)
Repeat(s, n) ==
  IF n = 0 THEN ""
  ELSE With(Repeat(s, n \div 2),
            LAMBDA half : half \o half \o (IF n % 2 = 1 THEN s ELSE ""))

\* A table name of MaxFieldLength + 1 characters.
LongTableName == Repeat("N", MaxFieldLength + 1)

\* A spec that AddPivotTable accepts, with one entry changed.
GoodSpec ==
  Options("Sheet1!$A$1:$E$31", "Sheet1!$G$2:$M$34", "",
          <<fMonth, fYear>>, <<fType>>, <<fSales>>, <<>>)

\* The specs AddPivotTable has to refuse, each with the beginning of the
\* error it has to return, written down by hand.
RejectedSpecs ==
  <<[p |-> Nil, err |-> "parameter is required"],
    [p |-> Some([GoodSpec EXCEPT !.PivotTableRange = ""]),
     err |-> "parameter 'PivotTableRange' parsing error: parameter is required"],
    [p |-> Some([GoodSpec EXCEPT !.PivotTableRange = "Sheet1G2M34"]),
     err |-> "parameter 'PivotTableRange' parsing error: parameter is invalid"],
    [p |-> Some([GoodSpec EXCEPT !.PivotTableRange = "Sheet1!G2!M34"]),
     err |-> "parameter 'PivotTableRange' parsing error: parameter is invalid"],
    [p |-> Some([GoodSpec EXCEPT !.PivotTableRange = "Sheet1!G2:2M"]),
     err |-> "parameter 'PivotTableRange' parsing error: "],
    [p |-> Some([GoodSpec EXCEPT !.PivotTableRange = "Sheet1!$G$2:G2"]),
     err |-> "parameter 'PivotTableRange' parsing error: parameter is invalid"],
    [p |-> Some([GoodSpec EXCEPT !.Name = LongTableName]),
     err |-> "the name length exceeds the 255 characters limit"],
    [p |-> Some([GoodSpec EXCEPT !.DataRange = ""]),
     err |-> "parameter 'DataRange' parsing error: parameter is required"],
    [p |-> Some([GoodSpec EXCEPT !.DataRange = "NoSuchName"]),
     err |-> "parameter 'DataRange' parsing error: parameter is invalid"],
    [p |-> Some([GoodSpec EXCEPT !.DataRange = "Sheet1!A1:A1"]),
     err |-> "parameter 'DataRange' parsing error: parameter is invalid"],
    [p |-> Some([GoodSpec EXCEPT !.DataRange = "Sheet1!A1:E"]),
     err |-> "parameter 'DataRange' parsing error: "],
    [p |-> Some([GoodSpec EXCEPT !.DataRange = "Sheet9!A1:E31"]),
     err |-> "sheet Sheet9 does not exist"],
    [p |-> Some([GoodSpec EXCEPT !.PivotTableRange = "Sheet9!G2:M34"]),
     err |-> "sheet Sheet9 does not exist"],
    [p |-> Some([GoodSpec EXCEPT !.DataRange = "Sheet1!A40:E41"]),
     err |-> "parameter 'DataRange' parsing error: parameter is invalid"],
    [p |-> Some([GoodSpec EXCEPT !.DataRange = "Sheet1!A1:F5"]),
     err |-> "parameter 'DataRange' parsing error: parameter is invalid"]>>

RejectedPool == {RejectedSpecs[i].p : i \in 1..Len(RejectedSpecs)} \cup {Some(GoodSpec)}

\* A new workbook, and a caller with the specs of RejectedPool.
InitRejected == InitBook /\ InitWith(NewFile, RejectedPool, MaxAdds)

SpecRejected == InitRejected /\ [][Next]_vars

hasPrefix(s, prefix) == Len(s) >= Len(prefix) /\ SubSeq(s, 1, Len(prefix)) = prefix

\* C11: an AddPivotTable call that returns an error leaves the parts, the
\* relationships, the workbook cache registry and the content types as they
\* were; and a nil spec, an empty, malformed or single-cell PivotTableRange, a
\* table name over 255, an empty, unresolvable or malformed DataRange, a
\* missing data or target sheet and an empty header cell each return their
\* error.
C11_RejectedAddChangesNothing ==
  [][last'.op = "AddPivotTable" =>
       /\ last'.err # "" =>
            /\ Pkg' = Pkg /\ Relationships' = Relationships
            /\ PivotCaches' = PivotCaches /\ ContentTypes' = ContentTypes
            /\ log' = log
       /\ \A i \in 1..Len(RejectedSpecs) :
            last'.opts = RejectedSpecs[i].p
              => last'.err # "" /\ hasPrefix(last'.err, RejectedSpecs[i].err)]_vars

\* A table name of 256 characters has been refused in a workbook that holds
\* one pivot table.
C11_Witness ==
  /\ last.op = "AddPivotTable" /\ last.err = ErrNameLength
  /\ last.opts # Nil /\ Len(last.opts[1].Name) = MaxFieldLength + 1
  /\ Len(log) = 1 /\ Cardinality(DOMAIN Pkg) = 2
  /\ Len(registry(CurrentDoc)) = 1

\* ------------------------------------------------------ long field names
\* A display name of n characters.
NameOfLen(n) == SubSeq(Repeat("abc", n), 1, n)

\* The lengths of the display names a caller gives: none, short, one under
\* the limit, the limit, one over, and 300.
NameLengths == {0, 5, MaxFieldLength - 1, MaxFieldLength, MaxFieldLength + 1, 300}

\* The fields of NamePool: a header column with a display name.
NamedFields ==
  {[ZeroField EXCEPT !.Data = data, !.Name = NameOfLen(n)] :
     data \in {"Month", "Sales"}, n \in NameLengths}

\* The specs of SpecNames: one named field in one list, and two named
\* fields in one list.
NamePool ==
  {Options("Sheet1!$A$1:$E$31", "Sheet1!$G$2:$M$34", "",
           IF axis = "Rows" THEN <<fld>> ELSE <<>>,
           IF axis = "Columns" THEN <<fld>> ELSE <<>>,
           IF axis = "Data" THEN <<fld>> ELSE <<>>,
           IF axis = "Filter" THEN <<fld>> ELSE <<>>) :
     axis \in {"Rows", "Columns", "Filter", "Data"}, fld \in NamedFields}
  \cup
  {Options("Sheet1!$A$1:$E$31", "Sheet1!$G$2:$M$34", "",
           <<[fYear EXCEPT !.Name = NameOfLen(300)]>>,
           <<[fType EXCEPT !.Name = NameOfLen(MaxFieldLength + 1)]>>,
           <<[fSales EXCEPT !.Name = NameOfLen(7)],
             [fMonth EXCEPT !.Name = NameOfLen(300)]>>,
           <<[fRegion EXCEPT !.Name = NameOfLen(MaxFieldLength)],
             [fMonth EXCEPT !.Name = NameOfLen(MaxFieldLength + 2)]>>)}

InitNamed == InitBook /\ \E o \in NamePool : InitWith(NewFile, {Some(o)}, 1)

SpecNames == InitNamed /\ [][NextFields]_vars

\* Is stored the display name given, cut to its first 255 characters if it
\* has more?
keptOrCut(stored, given) ==
  /\ hasPrefix(given, stored)
  /\ Len(stored) = IF Len(given) > 255 THEN 255 ELSE Len(given)

CornerColumns == {1, 3, 28}
CornerRows == {1, 2, 10}

\* The ways to anchor a corner: A1, $A$1, $A1, A$1.
Anchors == {"", "$$", "$c", "$r"}

\* The cell <<col, row>> as a caller writes it with anchor an.
Spelled(cell, an) ==
  (IF an \in {"$$", "$c"} THEN "$" ELSE "") \o ColumnNumberToName(cell[1])
  \o (IF an \in {"$$", "$r"} THEN "$" ELSE "") \o Itoa(cell[2])

\* The four spellings of the rectangle with the opposite corners a and b:
\* a:b, b:a and the two with the other pair of corners.
CornerOrders == {"a:b", "b:a", "mixed", "mixed-back"}

RangeOf(sheet, a, b, order, an) ==
  sheet \o "!"
  \o (CASE order = "a:b" -> Spelled(a, an) \o ":" \o Spelled(b, an)
        [] order = "b:a" -> Spelled(b, an) \o ":" \o Spelled(a, an)
        [] order = "mixed" -> Spelled(<<a[1], b[2]>>, an) \o ":" \o Spelled(<<b[1], a[2]>>, an)
        [] OTHER -> Spelled(<<b[1], a[2]>>, an) \o ":" \o Spelled(<<a[1], b[2]>>, an))

\* References that are not two corners of a rectangle, with the error
\* adjustRange is to return for each (no text where the error is that
\* of the coordinate parser).
BadRanges ==
  << [ref |-> "", err |-> "parameter is required"],
     [ref |-> "Sheet1A1B2", err |-> "parameter is invalid"],
     [ref |-> "Sheet1A1:B2", err |-> "parameter is invalid"],
     [ref |-> "Sheet1!A1!B2", err |-> "parameter is invalid"],
     [ref |-> "Sheet1!!A1:B2", err |-> "parameter is invalid"],
     [ref |-> "!", err |-> "parameter is invalid"],
     [ref |-> "Sheet1!", err |-> ""],
     [ref |-> "Sheet1!A1", err |-> ""],
     [ref |-> "Sheet1!A1:", err |-> ""],
     [ref |-> "Sheet1!A1:B", err |-> ""],
     [ref |-> "Sheet1!A1:2", err |-> ""],
     [ref |-> "Sheet1!1A:B2", err |-> ""],
     [ref |-> "Sheet1!A0:B2", err |-> ""],
     [ref |-> "Sheet1!A1:A1", err |-> "parameter is invalid"],
     [ref |-> "Sheet1!$A$1:$A$1", err |-> "parameter is invalid"],
     [ref |-> "Sheet1!A1:$A1", err |-> "parameter is invalid"],
     [ref |-> "Sheet1!a1:A1", err |-> "parameter is invalid"],
     [ref |-> "Sheet1!AB10:AB10", err |-> "parameter is invalid"] >>

\* What a caller of adjustRange holds: the reference, and the sheet and the
\* corners it was written from (no corners for a reference of BadRanges).
RangeInputs ==
  {[rangeStr |-> RangeOf(sheet, a, b, order, an), sheet |-> sheet, a |-> a, b |-> b] :
     sheet \in {"Sheet1"}, a \in CornerColumns \X CornerRows,
     b \in CornerColumns \X CornerRows, order \in CornerOrders, an \in Anchors}
  \cup {[rangeStr |-> BadRanges[i].ref, sheet |-> "", a |-> <<>>, b |-> <<>>] :
          i \in 1..Len(BadRanges)}

InitRange ==
  /\ InitBook
  /\ \E in \in RangeInputs : InitWith(NewFile, {in}, 0)

\* f.adjustRange(rangeStr) on the reference the caller holds.
AdjustRangeCall ==
  /\ \E in \in pool :
       \E r \in {adjustRange(in.rangeStr)} :
          last' = [op |-> "adjustRange", rangeStr |-> in.rangeStr, err |-> r.err,
                   sheet |-> r.sheet, c |-> r.c]
  /\ UNCHANGED <<cells, names, calls, dd, wsDataValidations, Pkg, Relationships, PivotCaches, ContentTypes,
                 pool, budget, log, deleted>>

\* f.adjustRange on the reference written from the rectangle that the last
\* call of adjustRange returned.
AdjustRangeAgain ==
  /\ last.op \in {"adjustRange", "adjustRangeAgain"}
  /\ last.err = ""
  /\ \E ref \in {last.sheet \o "!" \o CoordinatesToCellName(last.c[1], last.c[2])
                 \o ":" \o CoordinatesToCellName(last.c[3], last.c[4])} :
       \E r \in {adjustRange(ref)} :
          last' = [op |-> "adjustRangeAgain", rangeStr |-> ref, err |-> r.err,
                   sheet |-> r.sheet, c |-> r.c,
                   before |-> [op |-> last.op, rangeStr |-> last.rangeStr,
                               sheet |-> last.sheet, c |-> last.c]]
  /\ UNCHANGED <<cells, names, calls, dd, wsDataValidations, Pkg, Relationships, PivotCaches, ContentTypes,
                 pool, budget, log, deleted>>

NextRange == AdjustRangeCall \/ AdjustRangeAgain

SpecRange == InitRange /\ [][NextRange]_vars

\* The smaller and the larger of two numbers.
Smaller(m, n) == IF m <= n THEN m ELSE n
Larger(m, n) == IF m <= n THEN n ELSE m

\* C13: for two distinct cells a and b of a sheet, adjustRange returns for
\* each of the four corner orders and each anchoring of the rectangle a, b
\* the same sheet and the same x1, y1, x2, y2 with x1 <= x2 and y1 <= y2, the
\* bounding box of a and b; adjustRange of the returned rectangle returns it
\* again.
C13_CornerOrderInvariantIdempotent ==
  /\ \A in \in pool :
       (last.op = "adjustRange" /\ in.a # <<>> /\ in.a # in.b) =>
          /\ last.err = "" /\ last.sheet = in.sheet
          /\ last.c[1] <= last.c[3] /\ last.c[2] <= last.c[4]
          /\ last.c = <<Smaller(in.a[1], in.b[1]), Smaller(in.a[2], in.b[2]),
                        Larger(in.a[1], in.b[1]), Larger(in.a[2], in.b[2])>>
          /\ \A order \in CornerOrders, an \in Anchors :
               \E r \in {adjustRange(RangeOf(in.sheet, in.a, in.b, order, an))} :
                  r.err = "" /\ r.sheet = last.sheet /\ r.c = last.c
  /\ last.op = "adjustRangeAgain" =>
       last.err = "" /\ last.sheet = last.before.sheet /\ last.c = last.before.c

\* The rectangle written as $C10:AB$2, bottom-left corner first, has been
\* adjusted to C2:AB10, and adjusted again.
C13_Witness ==
  /\ last.op = "adjustRangeAgain"
  /\ last.before.op = "adjustRange"
  /\ last.before.rangeStr = "Sheet1!$C10:$AB2"
  /\ last.rangeStr = "Sheet1!C2:AB10"
  /\ last.c = <<3, 2, 28, 10>>

\* The number of occurrences of the character ch in s.
Occurrences(s, ch) == Cardinality({i \in 1..Len(s) : Char(s, i) = ch})

\* C14: adjustRange returns an error and no coordinates for a reference
\* that does not hold exactly one "!", whose corners do not parse, or whose
\* two corners are one cell; the error of the empty reference is that of a
\* required parameter; for two distinct corners, those of a one-row or a
\* one-column rectangle included, it returns no error and four coordinates.
C14_AdjustRangeFailures ==
  last.op = "adjustRange" =>
    /\ last.err # "" => last.c = <<>>
    /\ Occurrences(last.rangeStr, "!") # 1 => last.err # ""
    /\ last.rangeStr = "" => last.err = "parameter is required"
    /\ \A i \in 1..Len(BadRanges) :
         last.rangeStr = BadRanges[i].ref =>
           last.err # "" /\ hasPrefix(last.err, BadRanges[i].err)
    /\ \A in \in pool :
         in.a # <<>> =>
           IF in.a = in.b
           THEN last.err = "parameter is invalid"
           ELSE last.err = "" /\ Len(last.c) = 4 /\ last.sheet = in.sheet

\* adjustRange has refused a reference whose two corners are one cell
\* spelled in two ways.
C14_Witness ==
  /\ last.op = "adjustRange"
  /\ last.rangeStr = "Sheet1!A1:$A1"
  /\ last.err = ErrParameterInvalid
  /\ last.c = <<>>

\* adjustRange has accepted a one-column rectangle.
C14_OneColumnAccepted ==
  /\ last.op = "adjustRange"
  /\ last.rangeStr = "Sheet1!$C$10:$C$1"
  /\ last.c = <<3, 1, 3, 10>>

\* ------------------------------------------------- data-source resolution
\* A workbook with named tables on both worksheets and three defined names,
\* two of them spelled like a table.
SourceNames ==
  [tables |-> <<[sheet |-> "Sheet1", Name |-> "Table1", Range |-> "A1:C3"],
                [sheet |-> "Sheet2", Name |-> "Table2", Range |-> "A1:C5"],
                [sheet |-> "Sheet2", Name |-> "Both", Range |-> "A1:C2"]>>,
   definedNames |->
     <<[Name |-> "Both", RefersTo |-> "Sheet1!$A$1:$E$2", Scope |-> "Workbook"],
       [Name |-> "SalesData", RefersTo |-> "Sheet1!$B$1:$D$9", Scope |-> "Workbook"],
       [Name |-> "Table1", RefersTo |-> "Sheet2!$A$1:$C$9", Scope |-> "Workbook"]>>]

\* What AddPivotTable is to make of each DataRange on that workbook: the
\* error, or the resolved reference and whether the source is named.
SourceOf ==
  ("" :> [err |-> "parameter 'DataRange' parsing error: parameter is required"])
  @@ ("NoSuchName" :> [err |-> "parameter 'DataRange' parsing error: parameter is invalid"])
  @@ ("Sheet1!$A$1:$E$31" :> [err |-> "", ref |-> "Sheet1!$A$1:$E$31", named |-> FALSE])
  @@ ("Sheet2!C5:A1" :> [err |-> "", ref |-> "Sheet2!C5:A1", named |-> FALSE])
  @@ ("Table1" :> [err |-> "", ref |-> "Sheet1!A1:C3", named |-> TRUE])
  @@ ("Table2" :> [err |-> "", ref |-> "Sheet2!A1:C5", named |-> TRUE])
  @@ ("Both" :> [err |-> "", ref |-> "Sheet2!A1:C2", named |-> TRUE])
  @@ ("SalesData" :> [err |-> "", ref |-> "Sheet1!$B$1:$D$9", named |-> TRUE])

SourcePool ==
  {Options(dataRange, pivotTableRange, "", rows, <<>>, <<fSales>>, <<>>) :
     dataRange \in DOMAIN SourceOf,
     pivotTableRange \in {"Sheet1!$G$2:$M$34", "Sheet2!$A$10:$C$12"},
     rows \in {<<>>, <<fYear>>}}

InitSource ==
  /\ cells = InitCells
  /\ names = SourceNames
  /\ \E o \in SourcePool : InitWith(NewFile, {Some(o)}, 1)

SpecSource == InitSource /\ [][NextFields]_vars

\* C15: AddPivotTable resolves DataRange in this order: empty, the error of
\* a required data range; with a "!", the text itself; the named table of
\* that name on whichever sheet, before a defined name of the same spelling;
\* the defined name of that name; the last two flag the source as named and
\* the cache then names it; anything else is the error of an invalid data
\* range.
C15_DataSourceResolutionOrder ==
  /\ (last.op = "AddPivotTable" /\ last.opts # Nil) =>
       /\ last.err = SourceOf[last.opts[1].DataRange].err
       /\ last.err = "" <=> Len(log) = 1
  /\ \A k \in 1..Len(log) :
       LET expected == SourceOf[log[k].given.DataRange]
           source == log[k].pc.CacheSource.WorksheetSource
       IN /\ expected.err = ""
          /\ log[k].opts.pivotDataRange = expected.ref
          /\ log[k].opts.namedDataRange = expected.named
          /\ source.Name = IF expected.named THEN log[k].given.DataRange ELSE ""

\* A table on the second sheet has been taken before the defined name of
\* the same spelling.
C15_Witness ==
  /\ last.op = "AddPivotTable" /\ last.err = "" /\ Len(log) = 1
  /\ log[1].given.DataRange = "Both"
  /\ log[1].opts.pivotDataRange = "Sheet2!A1:C2"
  /\ log[1].opts.namedDataRange
  /\ log[1].pc.CacheSource.WorksheetSource.Name = "Both"

\* ------------------------------------------------------- concurrent callers
\* Two callers with the specs of SpecPool, one AddPivotTable call each; they
\* either serialize their calls or do not.
InitConcurrent ==
  /\ InitBook
  /\ Pkg = NewFile.Pkg
  /\ Relationships = NewFile.Relationships
  /\ PivotCaches = NewFile.PivotCaches
  /\ ContentTypes = NewFile.ContentTypes
  /\ pool = SpecPool
  /\ budget = Cardinality(Callers)
  /\ log = <<>>
  /\ deleted = 0
  /\ \E serialized \in BOOLEAN : calls = [NoCalls EXCEPT !.serialized = serialized]
  /\ dd = NewDataValidation(TRUE)
  /\ wsDataValidations = NoDataValidations
  /\ last = NoCall

\* Caller c enters AddPivotTable: the spec is checked and the table and
\* cache parts are counted (lines 149-157). Callers that serialize enter
\* only while no other call is under way.
BeginAdd(c) ==
  /\ calls.of[c].at = "idle"
  /\ calls.serialized => \A o \in Callers : calls.of[o].at # "counted"
  /\ \E p \in pool :
       \E v \in {parseFormatPivotTableSet(p)} :
          /\ calls' = [calls EXCEPT !.of[c] =
                         IF v.err # ""
                         THEN [at |-> "done", err |-> v.err]
                         ELSE [at |-> "counted", v |-> v, id |-> nextOrdinals(Pkg)]]
          /\ last' = [NoCall EXCEPT !.op = "AddPivotTable:" \o c, !.err = v.err, !.opts = p]
  /\ UNCHANGED <<cells, names, dd, wsDataValidations, Pkg, Relationships,
                 PivotCaches, ContentTypes, pool, budget, log, deleted>>

\* Caller c goes on from the ordinals it counted: the parts, relationships,
\* registration and content types are written (lines 158-181).
FinishAdd(c) ==
  /\ calls.of[c].at = "counted"
  /\ \E r \in {addPivotTableAs(CurrentDoc, calls.of[c].v, calls.of[c].id)} :
       /\ SetDoc(r.doc)
       /\ log' = IF r.err = "" THEN Append(log, logEntry(calls.of[c].v.opts, r) @@ [by |-> c])
                 ELSE log
       /\ calls' = [calls EXCEPT !.of[c] = [at |-> "done", err |-> r.err,
                                             id |-> calls.of[c].id]]
       /\ last' = [NoCall EXCEPT !.op = "AddPivotTable:" \o c, !.err = r.err,
                                 !.opts = r.opts]
  /\ UNCHANGED <<cells, names, dd, wsDataValidations, pool, budget, deleted>>

NextConcurrent == \E c \in Callers : BeginAdd(c) \/ FinishAdd(c)

SpecConcurrent == InitConcurrent /\ [][NextConcurrent]_vars

\* Two calls have written their table definition to one part path.
samePartWritten(j, k) ==
  j < k /\ log[j].opts.pivotTableXML = log[k].opts.pivotTableXML

\* C16: two AddPivotTable calls that are not serialized can count the same
\* next ordinals and write the same part paths, the later definition
\* replacing the earlier one; this happens only to calls that are not
\* serialized and that counted the same ordinals, and serialized calls write
\* distinct table parts and distinct cache parts.
C16_UnserializedCallsOverwrite ==
  \A j, k \in 1..Len(log) :
    /\ samePartWritten(j, k) =>
         /\ ~calls.serialized
         /\ calls.of[log[j].by].id = calls.of[log[k].by].id
         /\ log[j].opts.pivotCacheXML = log[k].opts.pivotCacheXML
         /\ Pkg[log[k].opts.pivotTableXML] = log[k].pt
         /\ Pkg[log[k].opts.pivotCacheXML] = log[k].pc
         /\ Cardinality(partsOfKind(Pkg, "pivotTableDefinition")) < Len(log)
    /\ (calls.serialized /\ j < k) =>
         /\ log[j].opts.pivotTableXML # log[k].opts.pivotTableXML
         /\ log[j].opts.pivotCacheXML # log[k].opts.pivotCacheXML
         /\ Pkg[log[j].opts.pivotTableXML] = log[j].pt
         /\ Pkg[log[k].opts.pivotTableXML] = log[k].pt

\* Both callers counted ordinal 1 and both succeeded; the package holds one
\* table part, the definition of the later call, and the other is gone.
C16_Witness ==
  /\ ~calls.serialized
  /\ Len(log) = 2
  /\ \A c \in Callers : calls.of[c].at = "done" /\ calls.of[c].err = ""
                        /\ calls.of[c].id = <<1, 1>>
  /\ log[1].opts.pivotTableXML = tablePath(1)
  /\ log[2].opts.pivotTableXML = tablePath(1)
  /\ log[1].pt # log[2].pt
  /\ Pkg[tablePath(1)] = log[2].pt
  /\ Cardinality(partsOfKind(Pkg, "pivotTableDefinition")) = 1

\* --------------------------------------------------------- data validation
\* The printable ASCII characters in code point order: from the space (32)
\* to the underscore (95), and from "a" (97) to the tilde (126).
Ascii ==
  " !\"#$%&'()*+,-./0123456789:;<=>?@ABCDEFGHIJKLMNOPQRSTUVWXYZ[\\]^_"

AsciiLower == "abcdefghijklmnopqrstuvwxyz{|}~"

\* The code point of each of them.
RuneOf ==
  [c \in {Char(Ascii, i) : i \in 1..Len(Ascii)} |->
     31 + CHOOSE i \in 1..Len(Ascii) : Char(Ascii, i) = c]
  @@ [c \in {Char(AsciiLower, i) : i \in 1..Len(AsciiLower)} |->
        96 + CHOOSE i \in 1..Len(AsciiLower) : Char(AsciiLower, i) = c]

\* []rune(s) of an ASCII string.
Runes(s) == [i \in 1..Len(s) |-> RuneOf[Char(s, i)]]

\* The concatenation of seqs[lo..hi].
RECURSIVE Concat(_, _, _)
Concat(seqs, lo, hi) ==
  IF lo > hi THEN <<>>
  ELSE IF lo = hi THEN seqs[lo]
  ELSE With((lo + hi) \div 2,
            LAMBDA mid : Concat(seqs, lo, mid) \o Concat(seqs, mid + 1, hi))

\* strings.Join(keys, sep)
Join(keys, sep) ==
  Concat([i \in 1..(2 * Len(keys) - 1) |-> IF i % 2 = 1 THEN keys[(i + 1) \div 2] ELSE sep],
         1, 2 * Len(keys) - 1)

\* A length that counts code points.
runeCount(s) == Len(s)

\* len(utf16.Encode(s)): a code point of a supplementary plane takes a
\* surrogate pair, two units; any other, one.
utf16EncodeLen(s) ==
  Len(s) + Cardinality({i \in 1..Len(s) : s[i] >= 65536 /\ s[i] <= 1114111})

\* formulaEscaper.Replace(s)
formulaEscaperReplace(s) ==
  Concat([i \in 1..Len(s) |->
            CASE s[i] = RuneOf["&"] -> Runes("&amp;")
              [] s[i] = RuneOf["<"] -> Runes("&lt;")
              [] s[i] = RuneOf[">"] -> Runes("&gt;")
              [] s[i] = RuneOf["\""] -> Runes("\"\"")
              [] OTHER -> <<s[i]>>],
         1, Len(s))

ErrDataValidationFormulaLength == "data validation must be 0-255 characters"

\* convDataValidationType(t)
convDataValidationType(t) ==
  CASE t = "typeNone" -> "none"
    [] t = "DataValidationTypeCustom" -> "custom"
    [] t = "DataValidationTypeDate" -> "date"
    [] t = "DataValidationTypeDecimal" -> "decimal"
    [] t = "typeList" -> "list"
    [] t = "DataValidationTypeTextLength" -> "textLength"
    [] t = "DataValidationTypeTime" -> "time"
    [] t = "DataValidationTypeWhole" -> "whole"
    [] OTHER -> ""

\* convDataValidationOperator(o)
convDataValidationOperator(o) ==
  CASE o = "DataValidationOperatorBetween" -> "between"
    [] o = "DataValidationOperatorEqual" -> "equal"
    [] o = "DataValidationOperatorGreaterThan" -> "greaterThan"
    [] o = "DataValidationOperatorGreaterThanOrEqual" -> "greaterThanOrEqual"
    [] o = "DataValidationOperatorLessThan" -> "lessThan"
    [] o = "DataValidationOperatorLessThanOrEqual" -> "lessThanOrEqual"
    [] o = "DataValidationOperatorNotBetween" -> "notBetween"
    [] o = "DataValidationOperatorNotEqual" -> "notEqual"
    [] OTHER -> ""

\* dd.SetDropList(keys): [err, dd]
SetDropList(d, keys) ==
  With(Join(keys, Runes(",")),
    LAMBDA formula :
      IF MaxFieldLength < utf16EncodeLen(formula)
      THEN [err |-> ErrDataValidationFormulaLength, dd |-> d]
      ELSE [err |-> "",
            dd |-> [d EXCEPT
                      !.Formula1 = Runes("<formula1>\"") \o formulaEscaperReplace(formula)
                                   \o Runes("\"</formula1>"),
                      !.Type = convDataValidationType("typeList")]])

\* dd.SetRange(f1, f2, t, o) for f1 and f2 of type int: [err, dd]
SetRange(d, f1, f2, t, o) ==
  [err |-> "",
   dd |-> [d EXCEPT !.Formula1 = Runes("<formula1>" \o Itoa(f1) \o "</formula1>"),
                    !.Formula2 = Runes("<formula2>" \o Itoa(f2) \o "</formula2>"),
                    !.Type = convDataValidationType(t),
                    !.Operator = convDataValidationOperator(o)]]

\* dd.SetSqrefDropList(sqref)
SetSqrefDropList(d, sqref) ==
  [d EXCEPT !.Formula1 = Runes("<formula1>" \o sqref \o "</formula1>"),
            !.Type = convDataValidationType("typeList")]

\* n times the code point r.
Rep(r, n) == [i \in 1..n |-> r]

\* n times the ASCII string s, as code points.
RepRunes(s, n) == [i \in 1..(n * Len(s)) |-> RuneOf[Char(s, ((i - 1) % Len(s)) + 1)]]

\* The key lists a caller gives SetDropList, each with the number of UTF-16
\* units of the joined keys and the escaped text of the joined keys, both
\* worked out by hand. 19968 and 19969 are code points of the basic plane,
\* 128512 is one of a supplementary plane.
DropLists ==
  << [keys |-> <<Runes("1"), Runes("2"), Runes("3")>>, units |-> 5,
      escaped |-> Runes("1,2,3")],
     [keys |-> <<Rep(RuneOf["&"], 255)>>, units |-> 255,
      escaped |-> RepRunes("&amp;", 255)],
     [keys |-> <<Rep(19968, 255)>>, units |-> 255, escaped |-> Rep(19968, 255)],
     [keys |-> <<Rep(128512, 100), Rep(19969, 50), Runes("<&>")>>, units |-> 255,
      escaped |-> Rep(128512, 100) \o Runes(",") \o Rep(19969, 50)
                  \o Runes(",&lt;&amp;&gt;")],
     [keys |-> <<Runes("A<"), Runes("B>"), Runes("C\""), Runes("E'"), Runes("F")>>,
      units |-> 14, escaped |-> Runes("A&lt;,B&gt;,C\"\",E',F")],
     [keys |-> <<>>, units |-> 0, escaped |-> <<>>],
     [keys |-> <<Rep(128512, 127), <<>> >>, units |-> 255,
      escaped |-> Rep(128512, 127) \o Runes(",")],
     [keys |-> <<Rep(RuneOf["s"], 255)>>, units |-> 255, escaped |-> RepRunes("s", 255)],
     [keys |-> [i \in 1..257 |-> <<>>], units |-> 256, escaped |-> <<>>],
     [keys |-> <<Rep(RuneOf["s"], 256)>>, units |-> 256, escaped |-> <<>>],
     [keys |-> <<Rep(19968, 256)>>, units |-> 256, escaped |-> <<>>],
     [keys |-> <<Rep(128512, 128)>>, units |-> 256, escaped |-> <<>>],
     [keys |-> <<Rep(128512, 127), Runes("s")>>, units |-> 256, escaped |-> <<>>] >>

\* A caller with a new DataValidation object.
InitDropList == InitBook /\ InitWith(NewFile, {}, 0)

SetDropListCall ==
  /\ \E i \in 1..Len(DropLists) :
       \E r \in {SetDropList(dd, DropLists[i].keys)} :
          /\ dd' = r.dd
          /\ last' = [op |-> "SetDropList", err |-> r.err, list |-> i]
  /\ UNCHANGED <<cells, names, calls, wsDataValidations, Pkg, Relationships,
                 PivotCaches, ContentTypes, pool, budget, log, deleted>>

SetRangeCall ==
  /\ \E f \in {<<10, 20>>, <<1, 5>>},
        t \in {"DataValidationTypeWhole", "DataValidationTypeDecimal"},
        o \in {"DataValidationOperatorBetween", "DataValidationOperatorGreaterThan"} :
       \E r \in {SetRange(dd, f[1], f[2], t, o)} :
          /\ dd' = r.dd
          /\ last' = [op |-> "SetRange", err |-> r.err, list |-> 0]
  /\ UNCHANGED <<cells, names, calls, wsDataValidations, Pkg, Relationships,
                 PivotCaches, ContentTypes, pool, budget, log, deleted>>

SetSqrefDropListCall ==
  /\ dd' = SetSqrefDropList(dd, "$E$1:$E$3")
  /\ last' = [op |-> "SetSqrefDropList", err |-> "", list |-> 0]
  /\ UNCHANGED <<cells, names, calls, wsDataValidations, Pkg, Relationships,
                 PivotCaches, ContentTypes, pool, budget, log, deleted>>

NextDropList == SetDropListCall \/ SetRangeCall \/ SetSqrefDropListCall

SpecDropList == InitDropList /\ [][NextDropList]_vars

\* C17: SetDropList returns the formula-length error and leaves the object
\* as it was exactly when the keys joined by commas take more than 255
\* UTF-16 units, a code point of a supplementary plane taking two; otherwise
\* it returns no error, Formula1 becomes the escaped list in double quotes
\* inside the formula1 element, which is not empty, and Type becomes list.
C17_DropListLengthLimit ==
  [][last'.op = "SetDropList" =>
       LET given == DropLists[last'.list]
       IN IF given.units > 255
          THEN last'.err = "data validation must be 0-255 characters" /\ dd' = dd
          ELSE /\ last'.err = ""
               /\ dd'.Type = "list"
               /\ dd'.Formula1 # <<>>
               /\ dd'.Formula1 = Runes("<formula1>\"") \o given.escaped
                                 \o Runes("\"</formula1>")
               /\ dd' = [dd EXCEPT !.Formula1 = dd'.Formula1, !.Type = "list"]]_vars

\* After SetRange, a list of 127 supplementary code points and an "s" has
\* been refused and the object still holds the range.
C17_Witness ==
  /\ last.op = "SetDropList"
  /\ last.err = ErrDataValidationFormulaLength
  /\ DropLists[last.list].keys = <<Rep(128512, 127), Runes("s")>>
  /\ dd.Type = "whole"
  /\ dd.Formula1 = Runes("<formula1>10</formula1>")

\* A list of 100 supplementary code points, 50 of the basic plane and "<&>",
\* 255 units when joined, has been accepted.
C17_AcceptedAtLimit ==
  /\ last.op = "SetDropList" /\ last.err = ""
  /\ last.list = 4
  /\ dd.Type = "list"
  /\ Len(dd.Formula1) = 11 + 165 + 12

\* The DataValidation objects a caller adds: a whole-number range and a
\* drop list.
ValidationPool ==
  {[SetRange(NewDataValidation(TRUE), 10, 20, "DataValidationTypeWhole",
             "DataValidationOperatorBetween").dd EXCEPT !.Sqref = "A1:B2"],
   [SetDropList(NewDataValidation(TRUE), <<Runes("1"), Runes("2"), Runes("3")>>).dd
      EXCEPT !.Sqref = "A5:B6"]}

\* The data validations a behaviour may hold at once in the workbook.
MaxValidations == 3

\* The number of data validations of the workbook.
RECURSIVE validationCount(_, _)
validationCount(ws, sheets) ==
  IF sheets = <<>> THEN 0
  ELSE (IF ws[Head(sheets)] = Nil THEN 0 ELSE ws[Head(sheets)][1].Count)
       + validationCount(ws, Tail(sheets))

\* f.AddDataValidation(sheet, dv) on the worksheets ws: [err, ws]
AddDataValidation(ws, sheet, dv) ==
  IF sheet \notin DOMAIN ws THEN [err |-> ErrSheetNotExist(sheet), ws |-> ws]
  ELSE With(IF ws[sheet] = Nil THEN <<>> ELSE ws[sheet][1].DataValidation,
         LAMBDA had :
           [err |-> "",
            ws |-> [ws EXCEPT ![sheet] = Some([DataValidation |-> Append(had, dv),
                                               Count |-> Len(had) + 1])]])

\* The orders in which a range over f.sheetMap may visit the worksheets.
sheetMapOrders ==
  {order \in [1..Len(GetSheetList) -> Range(GetSheetList)] :
     \A i, j \in 1..Len(GetSheetList) : i # j => order[i] # order[j]}

\* A loop that goes on to the next worksheet after one without data
\* validations.
getDataValidationAll(ws, order) ==
  LET resultDVs[i \in 0..Len(order)] ==
        IF i = 0 THEN EmptyMap
        ELSE IF ws[order[i]] = Nil THEN resultDVs[i - 1]
        ELSE resultDVs[i - 1] @@ (order[i] :> ws[order[i]][1].DataValidation)
  IN [err |-> "", resultDVs |-> resultDVs[Len(order)]]

\* f.GetDataValidation() when the range over f.sheetMap visits the
\* worksheets in this order: [err, resultDVs]. The loop returns at the first
\* worksheet without data validations.
GetDataValidation(ws, order) ==
  LET stop == {i \in 1..Len(order) : ws[order[i]] = Nil}
      visited == IF stop = {} THEN Len(order) ELSE Least(stop) - 1
  IN [err |-> "",
      resultDVs |-> [sheet \in {order[i] : i \in 1..visited} |->
                       ws[sheet][1].DataValidation]]

\* f.DeleteDataValidation(sheet) without a reference sequence: [err, ws]
DeleteDataValidation(ws, sheet) ==
  IF sheet \notin DOMAIN ws THEN [err |-> ErrSheetNotExist(sheet), ws |-> ws]
  ELSE [err |-> "", ws |-> [ws EXCEPT ![sheet] = Nil]]

InitValidations == InitBook /\ InitWith(NewFile, ValidationPool, 0)

AddDataValidationCall ==
  /\ validationCount(wsDataValidations, GetSheetList) < MaxValidations
  /\ \E sheet \in SheetArgs, dv \in pool :
       \E r \in {AddDataValidation(wsDataValidations, sheet, dv)} :
          /\ wsDataValidations' = r.ws
          /\ last' = [op |-> "AddDataValidation", err |-> r.err, sheet |-> sheet,
                      resultDVs |-> EmptyMap]
  /\ UNCHANGED <<cells, names, calls, dd, Pkg, Relationships, PivotCaches,
                 ContentTypes, pool, budget, log, deleted>>

GetDataValidationCall ==
  /\ \E order \in sheetMapOrders :
       \E r \in {GetDataValidation(wsDataValidations, order)} :
          last' = [op |-> "GetDataValidation", err |-> r.err, sheet |-> order[1],
                   resultDVs |-> r.resultDVs]
  /\ UNCHANGED <<cells, names, calls, dd, wsDataValidations, Pkg, Relationships,
                 PivotCaches, ContentTypes, pool, budget, log, deleted>>

DeleteDataValidationCall ==
  /\ \E sheet \in SheetArgs :
       \E r \in {DeleteDataValidation(wsDataValidations, sheet)} :
          /\ wsDataValidations' = r.ws
          /\ last' = [op |-> "DeleteDataValidation", err |-> r.err, sheet |-> sheet,
                      resultDVs |-> EmptyMap]
  /\ UNCHANGED <<cells, names, calls, dd, Pkg, Relationships, PivotCaches,
                 ContentTypes, pool, budget, log, deleted>>

NextValidations ==
  AddDataValidationCall \/ GetDataValidationCall \/ DeleteDataValidationCall

SpecValidations == InitValidations /\ [][NextValidations]_vars

\* C18: the map GetDataValidation returns holds, for every worksheet that
\* has data validations, all of that worksheet's data validations in the
\* order they were added, whatever the other worksheets hold.
C18_AllSheetsReturned ==
  (last.op = "GetDataValidation" /\ last.err = "") =>
    \A sheet \in DOMAIN wsDataValidations :
      wsDataValidations[sheet] # Nil =>
        /\ sheet \in DOMAIN last.resultDVs
        /\ last.resultDVs[sheet] = wsDataValidations[sheet][1].DataValidation

\* GetDataValidation has returned an empty map from a workbook whose second
\* worksheet holds a data validation.
C18_Witness ==
  /\ last.op = "GetDataValidation" /\ last.err = ""
  /\ last.sheet = "Sheet1"
  /\ wsDataValidations["Sheet1"] = Nil
  /\ wsDataValidations["Sheet2"] # Nil
  /\ last.resultDVs = EmptyMap

\* C19: after serialized AddPivotTable and DeletePivotTable calls on a
\* document that had no pivot parts, every table linked from a sheet has its
\* table part; the relationship file of that part targets exactly one cache
\* part, which exists; exactly one registry entry has the table's cache ID,
\* and its workbook relationship targets that cache part; the cache IDs of
\* the registry are pairwise distinct; the table part and the cache part
\* have a content-type override.
C19_LinkedTablesConsistent ==
  /\ \A i, j \in 1..Len(registry(CurrentDoc)) :
       i # j => registry(CurrentDoc)[i].CacheID # registry(CurrentDoc)[j].CacheID
  /\ \A l \in linked(CurrentDoc) :
       LET table == tablePartOf(l[2])
           caches == cachePartsOf(CurrentDoc, table)
           entries == {i \in 1..Len(registry(CurrentDoc)) :
                         registry(CurrentDoc)[i].CacheID = Pkg[table].CacheID}
       IN /\ table \in DOMAIN Pkg
          /\ Pkg[table].kind = "pivotTableDefinition"
          /\ Cardinality(caches) = 1
          /\ Len(relsOf(CurrentDoc, "xl/pivotTables/_rels/" \o Base(table) \o ".rels")) = 1
          /\ \A cache \in caches :
               /\ cache \in DOMAIN Pkg
               /\ Pkg[cache].kind = "pivotCacheDefinition"
               /\ Cardinality(entries) = 1
               /\ \A i \in entries :
                    \E r \in cacheRels(CurrentDoc, cache) : r.ID = registry(CurrentDoc)[i].RID
               /\ ("/" \o cache) \in ContentTypes
          /\ ("/" \o table) \in ContentTypes

\* A table was added and deleted and a second one was added: one table is
\* linked, two table parts and two cache parts are stored, and the registry
\* holds one entry.
C19_Witness ==
  /\ Len(log) = 2 /\ deleted = 1
  /\ last.op = "AddPivotTable" /\ last.err = ""
  /\ Cardinality(linked(CurrentDoc)) = 1
  /\ Cardinality(partsOfKind(Pkg, "pivotTableDefinition")) = 2
  /\ Len(registry(CurrentDoc)) = 1

\* The axis of the descriptor of a header column, by the list that names it.
ExpectedAxis(name, given) ==
  CASE name \in namesOf(given.Rows) -> "axisRow"
    [] name \notin namesOf(given.Rows) /\ name \in namesOf(given.Filter) -> "axisPage"
    [] name \notin namesOf(given.Rows) \cup namesOf(given.Filter)
       /\ name \in namesOf(given.Columns) -> "axisCol"
    [] OTHER -> ""

\* C20: the stored table definition has one descriptor per header column, in
\* header order; its axis is that of the first of Rows, Filter, Columns that
\* names the column, so a column named in Rows is a row field even if Filter
\* or Columns name it too; a column that only Data names has the data-field
\* mark and nothing else; a column that no list names has an empty
\* descriptor.
C20_AxisByFirstMatch ==
  \A k \in 1..Len(log) :
    LET given == log[k].given
        header == ExpectedSource[given.DataRange].header
        PivotField == log[k].pt.PivotFields.PivotField
    IN /\ Len(PivotField) = Len(header)
       /\ log[k].pt.PivotFields.Count = Len(header)
       /\ \A i \in 1..Len(header) :
            /\ PivotField[i].Axis = ExpectedAxis(header[i], given)
            /\ PivotField[i].DataField = (header[i] \in namesOf(given.Data))
            /\ (PivotField[i].Axis = "" /\ PivotField[i].DataField) =>
                 PivotField[i] = [Name |-> "", Axis |-> "", DataField |-> TRUE,
                                  Compact |-> Nil, Outline |-> Nil,
                                  DefaultSubtotal |-> Nil, Items |-> Nil]
            /\ (PivotField[i].Axis = "" /\ ~PivotField[i].DataField) =>
                 PivotField[i] = [Name |-> "", Axis |-> "", DataField |-> FALSE,
                                  Compact |-> Nil, Outline |-> Nil,
                                  DefaultSubtotal |-> Nil, Items |-> Nil]

\* Month is named in Rows and in Filter and is stored as a row field; Sales,
\* which no list names, has an empty descriptor.
C20_Witness ==
  /\ Len(log) = 1
  /\ log[1].given.DataRange = "Sheet1!$A$1:$E$31"
  /\ "Month" \in namesOf(log[1].given.Rows) \cap namesOf(log[1].given.Filter)
  /\ log[1].pt.PivotFields.PivotField[1].Axis = "axisRow"
  /\ log[1].pt.PivotFields.PivotField[4] = EmptyPivotField

\* Sales is named in Data only and is stored as a bare data field, after a
\* row field.
C20_DataOnlyMarked ==
  /\ Len(log) = 1
  /\ log[1].given.DataRange = "Sheet1!$A$1:$E$31"
  /\ namesOf(log[1].given.Data) = {"Sales"}
  /\ log[1].pt.PivotFields.PivotField[1].Axis = "axisRow"
  /\ log[1].pt.PivotFields.PivotField[4] = [EmptyPivotField EXCEPT !.DataField = TRUE]

\* ------------------------------------------------- shape of a stored table
\* The entries of an axis list of the table definition, <<>> without a list.
entriesOf(list, entries) == IF list = Nil THEN <<>> ELSE list[1][entries]

storedCount(list) == IF list = Nil THEN 0 ELSE list[1].Count

\* C21: every table definition that AddPivotTable wrote over a header of N
\* columns has N per-column descriptors and the stored count N; every entry of
\* RowFields, PageFields and DataFields is a field index in 0..N-1, every
\* entry of ColFields is in 0..N-1 or the values-axis sentinel -2, and the
\* stored count of each axis list is its length.
C21_TableDefinitionShape ==
  \A k \in 1..Len(log) :
    LET pt == log[k].pt
        N == Len(headerOf(log[k].given))
        rows == entriesOf(pt.RowFields, "Field")
        cols == entriesOf(pt.ColFields, "Field")
        pages == entriesOf(pt.PageFields, "PageField")
        data == entriesOf(pt.DataFields, "DataField")
    IN /\ Len(pt.PivotFields.PivotField) = N
       /\ pt.PivotFields.Count = N
       /\ \A i \in 1..Len(rows) : rows[i].X \in 0..(N - 1)
       /\ \A i \in 1..Len(cols) : cols[i].X \in (0..(N - 1)) \cup {-2}
       /\ \A i \in 1..Len(pages) : pages[i].Fld \in 0..(N - 1)
       /\ \A i \in 1..Len(data) : data[i].Fld \in 0..(N - 1)
       /\ storedCount(pt.RowFields) = Len(rows)
       /\ storedCount(pt.ColFields) = Len(cols)
       /\ storedCount(pt.PageFields) = Len(pages)
       /\ storedCount(pt.DataFields) = Len(data)

\* A table over the five columns of Sheet1 with two column fields, three data
\* fields and so the sentinel in ColFields: five descriptors, of which two
\* belong to no axis.
C21_Witness ==
  /\ last.op = "AddPivotTable" /\ last.err = "" /\ Len(log) = 1
  /\ log[1].given.Columns = <<fType, fMonth>> /\ Len(log[1].given.Data) = 3
  /\ log[1].pt.PivotFields.Count = 5
  /\ Len(log[1].pt.PivotFields.PivotField) = 5
  /\ log[1].pt.ColFields[1].Count = 3
  /\ log[1].pt.ColFields[1].Field[3].X = -2
  /\ log[1].pt.DataFields[1].Count = 3

\* A table over the one-column rectangle D1:D9 has one descriptor.
C21_OneColumn ==
  /\ Len(log) = 1 /\ log[1].given.DataRange = "Sheet1!D9:D1"
  /\ log[1].pt.PivotFields.Count = 1
  /\ log[1].pt.DataFields[1].DataField[1].Fld = 0

\* ------------------------------------------- data and page field entries
\* The elements of a caller's list whose column the header has, in the
\* caller's order.
presentOf(header, fields) == SelectSeq(fields, LAMBDA d : d.Data \in Range(header))

cutName(name) ==
  IF Len(name) > MaxFieldLength THEN SubSeq(name, 1, MaxFieldLength) ELSE name

\* C22: every entry of DataFields (of PageFields) is built from one element d
\* of the caller's Data (Filter) list: its field index is the first header
\* position of d.Data, its name d.Name cut to 255, for a data field its
\* subtotal the normalized d.Subtotal; the entries are in the caller's order,
\* also for lists with elements that name no header column.
C22_EntriesFromOneElement ==
  \A k \in 1..Len(log) :
    LET given == log[k].given
        header == headerOf(given)
        pt == log[k].pt
        data == presentOf(header, given.Data)
        filter == presentOf(header, given.Filter)
    IN /\ entriesOf(pt.DataFields, "DataField")
            = [i \in 1..Len(data) |->
                 [Name |-> cutName(data[i].Name),
                  Fld |-> indexIn(header, data[i].Data),
                  Subtotal |-> inEnums(SubtotalEnums, data[i].Subtotal)]]
       /\ entriesOf(pt.PageFields, "PageField")
            = [i \in 1..Len(filter) |->
                 [Name |-> cutName(filter[i].Name),
                  Fld |-> indexIn(header, filter[i].Data)]]

\* Data lists Profit, which is no header column, before Sales: the one data
\* field stored has the index of Sales with the name and subtotal of Profit.
C22_Witness ==
  /\ last.op = "AddPivotTable" /\ last.err = "" /\ Len(log) = 1
  /\ log[1].given.Data = <<fProfit, fSales>>
  /\ headerOf(log[1].given) = SheetHeader
  /\ log[1].pt.DataFields
       = Some([Count |-> 1,
               DataField |-> <<[Name |-> "P", Fld |-> 3, Subtotal |-> "max"]>>])

\* With every element of Data and Filter a header column the entries are
\* those of the elements, one for one.
C22_AllPresent ==
  \A k \in 1..Len(log) :
    (namesOf(log[k].given.Data) \cup namesOf(log[k].given.Filter)
       \subseteq Range(headerOf(log[k].given)))
    => LET given == log[k].given
           header == headerOf(given)
           pt == log[k].pt
       IN /\ entriesOf(pt.DataFields, "DataField")
               = [i \in 1..Len(given.Data) |->
                    [Name |-> cutName(given.Data[i].Name),
                     Fld |-> indexIn(header, given.Data[i].Data),
                     Subtotal |-> inEnums(SubtotalEnums, given.Data[i].Subtotal)]]
          /\ entriesOf(pt.PageFields, "PageField")
               = [i \in 1..Len(given.Filter) |->
                    [Name |-> cutName(given.Filter[i].Name),
                     Fld |-> indexIn(header, given.Filter[i].Data)]]

\* ------------------------------------------------- display names of fields
\* The list of the spec that decides the descriptor of a header column: the
\* first of Rows, Filter, Columns that names it.
listOfAxis(given, axis) ==
  CASE axis = "axisRow" -> given.Rows
    [] axis = "axisPage" -> given.Filter
    [] axis = "axisCol" -> given.Columns

\* The display name the caller gave a column in the list of its axis, cut.
givenName(name, given) ==
  LET list == listOfAxis(given, ExpectedAxis(name, given))
  IN cutName(list[inPivotTableField(list, name) + 1].Name)

\* C23: for each field listed in Rows, Columns or Filter the per-column
\* descriptor carries the display name the caller gave the field in that
\* list, cut to 255, and GetPivotTables returns that name for the field; the
\* descriptor of a filter field has the page axis and exactly one item, the
\* default one.
C23_DescriptorCarriesGivenName ==
  /\ \A k \in 1..Len(log) :
       LET given == log[k].given
           header == headerOf(given)
       IN \A i \in 1..Len(header) :
            LET pf == log[k].pt.PivotFields.PivotField[i]
            IN /\ ExpectedAxis(header[i], given) # ""
                    => pf.Name = givenName(header[i], given)
               /\ ExpectedAxis(header[i], given) = "axisPage"
                    => /\ pf.Axis = "axisPage"
                       /\ pf.Items = Some([Count |-> 1,
                                           Item |-> <<[T |-> "default", X |-> Nil]>>])
  /\ (last.op = "GetPivotTables" /\ last.err = "" /\ Len(log) = 1
      /\ Len(last.pivotTables) = 1)
     => \A r \in Range(last.pivotTables[1].Rows) \cup Range(last.pivotTables[1].Columns)
                   \cup Range(last.pivotTables[1].Filter) :
          r.Name = givenName(r.Data, log[1].given)

\* Region was given as a filter field with the display name Area: its
\* descriptor has the page axis, one default item and no name, and
\* GetPivotTables returns the filter field Region without a name.
C23_Witness ==
  /\ last.op = "GetPivotTables" /\ last.err = "" /\ Len(log) = 1
  /\ log[1].given.Filter = <<fRegion>> /\ fRegion.Name = "Area"
  /\ log[1].given.Columns = <<fType>>
  /\ log[1].pt.PivotFields.PivotField[5].Axis = "axisPage"
  /\ log[1].pt.PivotFields.PivotField[5].Name = ""
  /\ Len(last.pivotTables) = 1
  /\ Len(last.pivotTables[1].Filter) = 1
  /\ last.pivotTables[1].Filter[1].Data = "Region"
  /\ last.pivotTables[1].Filter[1].Name = ""

\* The names of row and column fields are stored and returned as given, and
\* a filter field has the page axis and the one default item.
C23_RowAndColumnNames ==
  /\ \A k \in 1..Len(log) :
       LET given == log[k].given
           header == headerOf(given)
       IN \A i \in 1..Len(header) :
            LET pf == log[k].pt.PivotFields.PivotField[i]
            IN /\ ExpectedAxis(header[i], given) \in {"axisRow", "axisCol"}
                    => pf.Name = givenName(header[i], given)
               /\ ExpectedAxis(header[i], given) = "axisPage"
                    => /\ pf.Axis = "axisPage"
                       /\ pf.Items = Some([Count |-> 1,
                                           Item |-> <<[T |-> "default", X |-> Nil]>>])
                       /\ pf.Name = getPivotTableFieldName(header[i], given.Columns)
  /\ (last.op = "GetPivotTables" /\ last.err = "" /\ Len(log) = 1
      /\ Len(last.pivotTables) = 1)
     => \A r \in Range(last.pivotTables[1].Rows) \cup Range(last.pivotTables[1].Columns) :
          r.Name = givenName(r.Data, log[1].given)

\* ------------------------------------------- row and column descriptors
\* The options the caller gave a column in the list of its axis.
givenOptions(name, given) ==
  LET list == listOfAxis(given, ExpectedAxis(name, given))
  IN list[inPivotTableField(list, name) + 1]

\* C24: a descriptor with the row or column axis has exactly one item: the
\* default item when the field's DefaultSubtotal option is true, else one
\* explicit item with the index 0; its compact, outline and defaultSubtotal
\* attributes are the field's options.
C24_RowColumnDescriptor ==
  \A k \in 1..Len(log) :
    LET given == log[k].given
        header == headerOf(given)
    IN \A i \in 1..Len(header) :
         LET pf == log[k].pt.PivotFields.PivotField[i]
         IN pf.Axis \in {"axisRow", "axisCol"}
            => LET o == givenOptions(header[i], given)
               IN /\ pf.Items # Nil
                  /\ pf.Items[1].Count = 1
                  /\ Len(pf.Items[1].Item) = 1
                  /\ pf.Items[1].Item[1]
                       = IF o.DefaultSubtotal THEN [T |-> "default", X |-> Nil]
                         ELSE [T |-> "", X |-> Some(0)]
                  /\ pf.Compact = Some(o.Compact)
                  /\ pf.Outline = Some(o.Outline)
                  /\ pf.DefaultSubtotal = Some(o.DefaultSubtotal)

\* Rows Month with DefaultSubtotal and Year without, compact and outlined:
\* the descriptor of Month has the default item, that of Year the item 0.
C24_Witness ==
  /\ last.op = "AddPivotTable" /\ last.err = "" /\ Len(log) = 1
  /\ log[1].given.Rows = <<fMonth, fYear>>
  /\ fMonth.DefaultSubtotal /\ ~fYear.DefaultSubtotal
  /\ log[1].pt.PivotFields.PivotField[1].Items[1].Item = <<[T |-> "default", X |-> Nil]>>
  /\ log[1].pt.PivotFields.PivotField[2].Items[1].Item = <<[T |-> "", X |-> Some(0)]>>
  /\ log[1].pt.PivotFields.PivotField[2].Compact = Some(TRUE)
  /\ log[1].pt.PivotFields.PivotField[1].Compact = Some(FALSE)

\* ------------------------------------------------ edits after the call
\* Specs over a rectangle, over the named table Table1 (Month, Year, Type) and
\* over the defined name SalesData (Year, Type, Sales).
EditedPool ==
  {Options("Sheet1!$A$1:$E$31", "Sheet1!$G$2:$M$34", "",
           <<fMonth>>, <<fType>>, <<fSales>>, <<fRegion>>),
   Options("Table1", "Sheet2!G2:M34", "", <<fType>>, <<>>, <<fYear>>, <<>>),
   Options("Table1", "Sheet2!G2:M34", "", <<fMonth>>, <<>>, <<fType>>, <<>>),
   Options("SalesData", "Sheet2!G2:M34", "", <<fYear>>, <<>>, <<fSales>>, <<>>)}

\* The header cells that are edited and the texts written to them, the
\* rectangles the table Table1 is resized to, and the references the defined
\* name SalesData is set to.
EditedCells == {"C1", "E1"}

EditedValues == {"", "Kind"}

TableRanges == {"A1:C3", "A1:B3", "A1:D3"}

DefinedRefs == {"Sheet1!$B$1:$D$9", "Sheet1!$B$1:$C$9", "Sheet1!$A$1:$E$9"}

InitEdited == InitBook /\ \E o \in EditedPool : InitWith(NewFile, {Some(o)}, 1)

\* f.SetCellValue("Sheet1", cell, value) on a header cell
SetCellValueCall ==
  /\ \E cell \in EditedCells, value \in EditedValues :
       /\ cells' = [cells EXCEPT !["Sheet1"] = (cell :> value) @@ @]
       /\ last' = [NoCall EXCEPT !.op = "SetCellValue", !.sheet = "Sheet1", !.name = cell]
  /\ UNCHANGED <<names, calls, dd, wsDataValidations, Pkg, Relationships, PivotCaches,
                 ContentTypes, pool, budget, log, deleted>>

\* The named table Table1 is given another rectangle.
ResizeTable ==
  /\ \E ref \in TableRanges :
       /\ names' = [names EXCEPT
                      !.tables = [i \in 1..Len(@) |->
                                    IF @[i].Name = "Table1"
                                    THEN [@[i] EXCEPT !.Range = ref] ELSE @[i]]]
       /\ last' = [NoCall EXCEPT !.op = "ResizeTable", !.name = "Table1"]
  /\ UNCHANGED <<cells, calls, dd, wsDataValidations, Pkg, Relationships, PivotCaches,
                 ContentTypes, pool, budget, log, deleted>>

\* The defined name SalesData is deleted and defined again with another
\* reference.
SetDefinedName ==
  /\ \E refersTo \in DefinedRefs :
       /\ names' = [names EXCEPT
                      !.definedNames = [i \in 1..Len(@) |->
                                          IF @[i].Name = "SalesData"
                                          THEN [@[i] EXCEPT !.RefersTo = refersTo]
                                          ELSE @[i]]]
       /\ last' = [NoCall EXCEPT !.op = "SetDefinedName", !.name = "SalesData"]
  /\ UNCHANGED <<cells, calls, dd, wsDataValidations, Pkg, Relationships, PivotCaches,
                 ContentTypes, pool, budget, log, deleted>>

NextEdited ==
  AddPivotTable \/ GetPivotTablesCall \/ SetCellValueCall \/ ResizeTable \/ SetDefinedName

SpecEdited == InitEdited /\ [][NextEdited]_vars

\* C25: for every table that AddPivotTable created, GetPivotTables returns a
\* spec or an error and never indexes the header order it has read again
\* outside its bounds, by position for a descriptor or by stored index for a
\* data field, whatever was done since to the header cells, the named table
\* or the defined name of the data range.
C25_GetPivotTablesNeverPanics ==
  last.op = "GetPivotTables" => last.err # PanicError

\* Table1 had three columns when the table with the row field Type was
\* created and has two now: GetPivotTables on the table's sheet indexes the
\* two names read with the position of the third descriptor.
C25_Witness ==
  /\ last.op = "GetPivotTables" /\ last.sheet = "Sheet2" /\ last.err = PanicError
  /\ Len(log) = 1 /\ log[1].given.DataRange = "Table1"
  /\ log[1].given.Rows = <<fType>>
  /\ log[1].pt.PivotFields.Count = 3
  /\ log[1].pt.PivotFields.PivotField[3].Axis = "axisRow"
  /\ names.tables[1].Range = "A1:B3"

\* The stored index of a data field is beyond the names read: Sales was the
\* third column of SalesData, which has two columns now.
C25_DataFieldBeyondHeader ==
  /\ last.op = "GetPivotTables" /\ last.sheet = "Sheet2" /\ last.err = PanicError
  /\ Len(log) = 1 /\ log[1].given.DataRange = "SalesData"
  /\ log[1].pt.DataFields[1].DataField[1].Fld = 2
  /\ names.definedNames[1].RefersTo = "Sheet1!$B$1:$C$9"

\* Edits of header cells alone never make the call panic: a table over a
\* rectangle is read back as a spec, with the edited names, or the call
\* returns the error of an empty header cell.
C25_RectangleSourcesSafe ==
  (last.op = "GetPivotTables" /\ Len(log) = 1
   /\ log[1].given.DataRange = "Sheet1!$A$1:$E$31")
  => last.err \in {"", ErrSheetNotExist(last.sheet), ErrParameterInvalid}

\* A header cell of a rectangle source was renamed and the table read back
\* with the new name.
C25_Renamed ==
  /\ last.op = "GetPivotTables" /\ last.err = "" /\ Len(last.pivotTables) = 1
  /\ log[1].given.DataRange = "Sheet1!$A$1:$E$31"
  /\ last.pivotTables[1].Columns[1].Data = "Kind"

\* ------------------------------------------------- a spec passed again
\* The data ranges a caller gives one spec value in turn.
ReusedRanges ==
  {"Sheet1!$A$1:$E$31", "Sheet1!B1:E1", "Table1", "SalesData", "Sheet1!A1:F5"}

ReusedPool ==
  {Options(dataRange, "Sheet2!G2:M34", "", <<fYear>>, <<>>, <<fSales>>, <<>>) :
     dataRange \in ReusedRanges}

\* pool holds the one spec value of the caller, unexported fields included.
InitReused == InitBook /\ \E o \in ReusedPool : InitWith(NewFile, {Some(o)}, MaxAdds)

\* f.AddPivotTable(opts) with opts a pointer to the caller's value: the call
\* leaves its unexported fields set in it.
AddPivotTableByPointer ==
  /\ Len(log) < budget
  /\ \E p \in pool :
       \E r \in {doAddPivotTable(CurrentDoc, p)} :
          /\ SetDoc(r.doc)
          /\ pool' = (pool \ {p}) \cup {r.opts}
          /\ log' = IF r.err = "" THEN Append(log, logEntry(p, r)) ELSE log
          /\ last' = [NoCall EXCEPT !.op = "AddPivotTable", !.err = r.err, !.opts = p]
  /\ UNCHANGED <<cells, names, calls, dd, wsDataValidations, budget, deleted>>

\* opts.DataRange = dataRange, by the caller, between two calls
SetDataRange ==
  /\ \E p \in pool, dataRange \in ReusedRanges :
       /\ pool' = (pool \ {p}) \cup {Some([p[1] EXCEPT !.DataRange = dataRange])}
       /\ last' = [NoCall EXCEPT !.op = "SetDataRange", !.opts = p]
  /\ UNCHANGED <<cells, names, calls, dd, wsDataValidations, Pkg, Relationships, PivotCaches,
                 ContentTypes, budget, log, deleted>>

NextReused == AddPivotTableByPointer \/ SetDataRange \/ GetPivotTablesCall

SpecReused == InitReused /\ [][NextReused]_vars

\* C26: the rectangle that AddPivotTable validates, reads the header from and
\* records in the cache is the one that the DataRange of the spec denotes when
\* the call is made, also for a spec value that an earlier call was given
\* already and whose DataRange was changed since.
C26_DataRangeOfThisCall ==
  /\ \A k \in 1..Len(log) :
       LET expected == ExpectedSource[log[k].given.DataRange]
           source == log[k].pc.CacheSource.WorksheetSource
           fields == log[k].pc.CacheFields.CacheField
       IN /\ "" \notin Range(expected.header)
          /\ source.Ref = expected.Ref
          /\ source.Sheet = expected.Sheet
          /\ source.Name = expected.Name
          /\ [i \in 1..Len(fields) |-> fields[i].Name] = expected.header
  /\ (last.op = "AddPivotTable" /\ last.err # "")
       => "" \in Range(ExpectedSource[last.opts[1].DataRange].header)

\* The spec was passed with the rectangle A1:E31 and then, its DataRange set
\* to B1:E1, again: the second cache has the source A1:E31 and five fields.
C26_Witness ==
  /\ last.op = "AddPivotTable" /\ last.err = "" /\ Len(log) = 2
  /\ log[1].given.DataRange = "Sheet1!$A$1:$E$31"
  /\ log[2].given.DataRange = "Sheet1!B1:E1"
  /\ log[2].given.pivotDataRange = "Sheet1!$A$1:$E$31"
  /\ log[2].pc.CacheSource.WorksheetSource.Ref = "A1:E31"
  /\ log[2].pc.CacheFields.Count = 5

\* A spec value passed for the first time, or again with the DataRange it had,
\* gives the cache of its DataRange.
C26_FreshSpec ==
  \A k \in 1..Len(log) :
    (log[k].given.pivotDataRange = "" \/ (k > 1 /\ log[k].given.DataRange = log[k-1].given.DataRange))
    => LET expected == ExpectedSource[log[k].given.DataRange]
           source == log[k].pc.CacheSource.WorksheetSource
           fields == log[k].pc.CacheFields.CacheField
       IN /\ "" \notin Range(expected.header)
          /\ source.Ref = expected.Ref
          /\ source.Sheet = expected.Sheet
          /\ source.Name = expected.Name
          /\ [i \in 1..Len(fields) |-> fields[i].Name] = expected.header

\* ------------------------------------------- axis lists and descriptors
\* C27: in every stored table definition each index of RowFields other than
\* -2 is that of a column whose descriptor has the row axis, each such index
\* of ColFields one with the column axis and each index of PageFields one
\* with the page axis, also for a spec that lists a field in more than one of
\* Rows, Columns and Filter.
C27_AxisListsAgreeWithDescriptors ==
  \A k \in 1..Len(log) :
    LET pt == log[k].pt
        axisAt(x) == pt.PivotFields.PivotField[x + 1].Axis
        rows == entriesOf(pt.RowFields, "Field")
        cols == entriesOf(pt.ColFields, "Field")
        pages == entriesOf(pt.PageFields, "PageField")
    IN /\ \A i \in 1..Len(rows) : rows[i].X # -2 => axisAt(rows[i].X) = "axisRow"
       /\ \A i \in 1..Len(cols) : cols[i].X # -2 => axisAt(cols[i].X) = "axisCol"
       /\ \A i \in 1..Len(pages) : axisAt(pages[i].Fld) = "axisPage"

\* Year is listed in Rows and in Columns: RowFields and ColFields both hold
\* its index 1, and its descriptor has the row axis.
C27_Witness ==
  /\ last.op = "AddPivotTable" /\ last.err = "" /\ Len(log) = 1
  /\ log[1].given.Rows = <<fYear>> /\ log[1].given.Columns = <<fYear>>
  /\ log[1].pt.RowFields = Some([Count |-> 1, Field |-> <<[X |-> 1]>>])
  /\ log[1].pt.ColFields = Some([Count |-> 1, Field |-> <<[X |-> 1]>>])
  /\ log[1].pt.PivotFields.PivotField[2].Axis = "axisRow"

\* Does a spec list each field in one of Rows, Columns and Filter at most?
oneAxisEach(g) ==
  /\ namesOf(g.Rows) \cap namesOf(g.Columns) = {}
  /\ namesOf(g.Rows) \cap namesOf(g.Filter) = {}
  /\ namesOf(g.Columns) \cap namesOf(g.Filter) = {}

\* For a spec that lists each field in one of Rows, Columns and Filter at
\* most the axis lists agree with the descriptors.
C27_OneAxisEach ==
  \A k \in 1..Len(log) :
    oneAxisEach(log[k].given)
    => LET pt == log[k].pt
           axisAt(x) == pt.PivotFields.PivotField[x + 1].Axis
           rows == entriesOf(pt.RowFields, "Field")
           cols == entriesOf(pt.ColFields, "Field")
           pages == entriesOf(pt.PageFields, "PageField")
       IN /\ \A i \in 1..Len(rows) : rows[i].X # -2 => axisAt(rows[i].X) = "axisRow"
          /\ \A i \in 1..Len(cols) : cols[i].X # -2 => axisAt(cols[i].X) = "axisCol"
          /\ \A i \in 1..Len(pages) : axisAt(pages[i].Fld) = "axisPage"

\* ------------------------------------------------ order of returned lists
\* The header names whose column the spec puts on an axis, in header order.
axisNames(header, given, axis) ==
  SelectSeq(header, LAMBDA name : ExpectedAxis(name, given) = axis)

dataOf(fields) == [i \in 1..Len(fields) |-> fields[i].Data]

\* C28: GetPivotTables returns Rows, Columns and Filter each in ascending
\* header order, in whatever order the caller listed the fields, and Data in
\* the caller's order; the stored RowFields keep the caller's order.
C28_ReturnedInHeaderOrder ==
  (/\ last.op = "GetPivotTables" /\ last.err = "" /\ Len(log) = 1
   /\ Len(last.pivotTables) = 1)
  => LET given == log[1].given
         header == headerOf(given)
         got == last.pivotTables[1]
     IN /\ dataOf(got.Rows) = axisNames(header, given, "axisRow")
        /\ dataOf(got.Columns) = axisNames(header, given, "axisCol")
        /\ dataOf(got.Filter) = axisNames(header, given, "axisPage")
        /\ dataOf(got.Data) = dataOf(presentOf(header, given.Data))
        /\ [i \in 1..Len(entriesOf(log[1].pt.RowFields, "Field")) |->
              entriesOf(log[1].pt.RowFields, "Field")[i].X]
             = indicesOf(header, given.Rows)

\* Rows were given as Year, Month: the stored RowFields are [1, 0] and the
\* rows returned are Month, Year.
C28_Witness ==
  /\ last.op = "GetPivotTables" /\ last.err = "" /\ Len(log) = 1
  /\ Len(last.pivotTables) = 1
  /\ log[1].given.Rows = <<fYear, fMonth>>
  /\ log[1].pt.RowFields[1].Field = <<[X |-> 1], [X |-> 0]>>
  /\ dataOf(last.pivotTables[1].Rows) = <<"Month", "Year">>

\* Data was given as Sales, Year, Region and is returned so; the columns
\* given as Type, Month are returned as Month, Type.
C28_DataInCallersOrder ==
  /\ last.op = "GetPivotTables" /\ last.err = "" /\ Len(log) = 1
  /\ Len(last.pivotTables) = 1
  /\ log[1].given.Columns = <<fType, fMonth>>
  /\ dataOf(last.pivotTables[1].Data) = <<"Sales", "Year", "Region">>
  /\ dataOf(last.pivotTables[1].Columns) = <<"Month", "Type">>

\* ------------------------------------------------------ loaded documents
\* A document as it is opened with the pivot table and cache parts of the
\* ordinals in S, each table on Sheet1 with a cache of its own: what is left
\* of a workbook whose other pivot tables a spreadsheet application removed.
loadedWith(d, k) ==
  addPivotTableAs(d,
                  parseFormatPivotTableSet(
                    Some(Options("Sheet1!$A$1:$E$31", "Sheet1!$G$2:$M$34", "",
                                 <<fMonth>>, <<>>, <<fSales>>, <<>>))),
                  <<k, k>>).doc

LoadedFile(S) ==
  LET from[k \in 0..3] ==
        IF k = 0 THEN NewFile
        ELSE IF k \in S THEN loadedWith(from[k - 1], k) ELSE from[k - 1]
  IN from[3]

\* The ordinals of the parts of the documents opened: none, 1 and 2, and
\* sets with a gap.
LoadedOrdinals == {{}, {1, 2}, {2}, {3}, {1, 3}}

InitLoaded ==
  InitBook /\ \E S \in LoadedOrdinals : InitWith(LoadedFile(S), SpecPool, 1)

SpecLoaded == InitLoaded /\ [][Next]_vars

\* C29: AddPivotTable writes its table part and its cache part to paths that
\* the package did not hold, and leaves every stored part as it was, whatever
\* ordinals the parts of the opened document have.
C29_NoPartOverwritten ==
  [][last'.op = "AddPivotTable" =>
       /\ \A k \in DOMAIN Pkg : k \in DOMAIN Pkg' /\ Pkg'[k] = Pkg[k]
       /\ last'.err = "" =>
            /\ log'[Len(log')].opts.pivotTableXML \notin DOMAIN Pkg
            /\ log'[Len(log')].opts.pivotCacheXML \notin DOMAIN Pkg]_vars

\* The opened document had the parts of ordinal 2 alone; AddPivotTable of a
\* table named PT has counted one part of each kind and written its parts
\* under ordinal 2: the package holds the new table and not the loaded one.
C29_Witness ==
  /\ last.op = "AddPivotTable" /\ last.err = "" /\ Len(log) = 1 /\ deleted = 0
  /\ DOMAIN Pkg = {tablePath(2), cachePath(2)}
  /\ log[1].opts.pivotTableXML = tablePath(2)
  /\ log[1].opts.pivotCacheXML = cachePath(2)
  /\ log[1].given.Name = "PT"
  /\ Pkg[tablePath(2)].Name = "PT"

\* On a document whose parts have the ordinals 1..n no part is overwritten.
C29_ContiguousOrdinals ==
  [][(/\ last'.op = "AddPivotTable"
      /\ \E n \in 0..3 :
           /\ partsOfKind(Pkg, "pivotTableDefinition") = {tablePath(k) : k \in 1..n}
           /\ partsOfKind(Pkg, "pivotCacheDefinition") = {cachePath(k) : k \in 1..n})
     => /\ \A k \in DOMAIN Pkg : k \in DOMAIN Pkg' /\ Pkg'[k] = Pkg[k]
        /\ last'.err = "" =>
             /\ log'[Len(log')].opts.pivotTableXML \notin DOMAIN Pkg
             /\ log'[Len(log')].opts.pivotCacheXML \notin DOMAIN Pkg]_vars

\* ------------------------------------- DeleteDataValidation by reference
\* strings.Fields(s) for words separated by spaces
Fields(s) == SelectSeq(Split(s, " "), LAMBDA w : w # "")

ErrCellName == "invalid cell name"

\* The cells c..c2 of one reference of a reference sequence, column by
\* column and top down: [err, cells]
refCells(ref) ==
  With(Split(ref, ":"),
    LAMBDA rng :
      IF Len(rng) = 1
      THEN With(CellNameToCoordinates(rng[1]),
             LAMBDA c : IF ~c.ok THEN [err |-> ErrCellName, cells |-> <<>>]
                        ELSE [err |-> "", cells |-> <<<<c.col, c.row>>>>])
      ELSE IF Len(rng) = 2
      THEN With(rangeRefToCoordinates(ref),
             LAMBDA r :
               IF r.err # "" THEN [err |-> ErrCellName, cells |-> <<>>]
               ELSE With(corrected(r.c[1], r.c[2], r.c[3], r.c[4]),
                      LAMBDA c :
                        [err |-> "",
                         cells |-> [n \in 1..((c[3] - c[1] + 1) * (c[4] - c[2] + 1)) |->
                                      <<c[1] + ((n - 1) \div (c[4] - c[2] + 1)),
                                        c[2] + ((n - 1) % (c[4] - c[2] + 1))>>]]))
      ELSE [err |-> "", cells |-> <<>>])

\* f.flatSqref(sqref): [err, cells], cells the map from a column to its cells
\* in the order of the sequence.
flatSqref(sqref) ==
  With([i \in 1..Len(Fields(sqref)) |-> refCells(Fields(sqref)[i])],
    LAMBDA got :
      IF \E i \in 1..Len(got) : got[i].err # ""
      THEN [err |-> ErrCellName, cells |-> EmptyMap]
      ELSE LET all[i \in 0..Len(got)] ==
                 IF i = 0 THEN <<>> ELSE all[i - 1] \o got[i].cells
               flat == all[Len(got)]
           IN [err |-> "",
               cells |-> [col \in {flat[i][1] : i \in 1..Len(flat)} |->
                            SelectSeq(flat, LAMBDA c : c[1] = col)]])

\* inCoordinates(a, x): 0-based position of the first x in a, or -1.
inCoordinates(a, x) ==
  With({i \in 1..Len(a) : a[i] = x},
       LAMBDA hits : IF hits = {} THEN -1 ELSE Least(hits) - 1)

\* The cells of a column without the first occurrence of each cell of del,
\* one after the other.
withoutCells(col, del) ==
  LET left[n \in 0..Len(del)] ==
        IF n = 0 THEN col
        ELSE With(inCoordinates(left[n - 1], del[n]),
               LAMBDA idx :
                 IF idx = -1 THEN left[n - 1]
                 ELSE SubSeq(left[n - 1], 1, idx)
                      \o SubSeq(left[n - 1], idx + 2, Len(left[n - 1])))
  IN left[Len(del)]

\* f.coordinatesToAreaRef(<<x1, y1, x2, y2>>)
coordinatesToAreaRef(c) ==
  CoordinatesToCellName(c[1], c[2]) \o ":" \o CoordinatesToCellName(c[3], c[4])

\* f.squashSqref(cells): the references of the cells coords of one column
squashSqref(coords) ==
  IF Len(coords) = 1 THEN <<CoordinatesToCellName(coords[1][1], coords[1][2])>>
  ELSE IF Len(coords) = 0 THEN <<>>
  ELSE LET curr(l, r) ==
             IF l = r THEN CoordinatesToCellName(coords[l][1], coords[l][2])
             ELSE coordinatesToAreaRef(coords[l] \o coords[r])
           st[i \in 1..Len(coords)] ==
             IF i = 1 THEN [l |-> 1, r |-> 1, res |-> <<>>]
             ELSE LET p == st[i - 1]
                  IN IF coords[i][1] = coords[p.r][1] /\ coords[i][2] - coords[p.r][2] > 1
                     THEN [l |-> i, r |-> i, res |-> Append(p.res, curr(p.l, p.r))]
                     ELSE [p EXCEPT !.r = p.r + 1]
           end == st[Len(coords)]
       IN Append(end.res, curr(end.l, end.r))

\* The columns of a map in ascending or descending order: two of the orders
\* in which a range over the map may visit them.
columnsOf(m, backwards) ==
  LET up[n \in 0..Cardinality(DOMAIN m)] ==
        IF n = 0 THEN <<>>
        ELSE Append(up[n - 1],
                    Least({c \in DOMAIN m : \A j \in 1..(n - 1) : up[n - 1][j] # c}))
      cols == up[Cardinality(DOMAIN m)]
  IN IF backwards THEN [i \in 1..Len(cols) |-> cols[Len(cols) + 1 - i]] ELSE cols

\* One turn of the loop of DeleteDataValidation: the Sqref left of sqref
\* without the cells delCells, [err, Sqref, empty].
applySqrefOf(sqref, delCells, backwards) ==
  With(flatSqref(sqref),
    LAMBDA colCells :
      IF colCells.err # "" THEN [err |-> colCells.err, Sqref |-> sqref, empty |-> FALSE]
      ELSE With([col \in DOMAIN colCells.cells |->
                   IF col \in DOMAIN delCells
                   THEN withoutCells(colCells.cells[col], delCells[col])
                   ELSE colCells.cells[col]],
             LAMBDA left :
               LET cols == columnsOf(left, backwards)
                   apply[n \in 0..Len(cols)] ==
                     IF n = 0 THEN <<>>
                     ELSE apply[n - 1] \o squashSqref(left[cols[n]])
                   applySqref == apply[Len(cols)]
                   joined[n \in 0..Len(applySqref)] ==
                     IF n = 0 THEN ""
                     ELSE IF n = 1 THEN applySqref[1]
                     ELSE joined[n - 1] \o " " \o applySqref[n]
               IN [err |-> "", Sqref |-> joined[Len(applySqref)],
                   empty |-> Len(applySqref) = 0]))

\* f.DeleteDataValidation(sheet, sqref) with a reference sequence: [err, ws].
\* backwards holds the turns of the loop in which the range over the columns
\* goes from the last column to the first. The loop returns the error of a
\* stored Sqref where it meets it, the entries before it changed or removed
\* and the count as it was.
DeleteDataValidationBy(ws, sheet, sqref, backwards) ==
  IF sheet \notin DOMAIN ws THEN [err |-> ErrSheetNotExist(sheet), ws |-> ws]
  ELSE IF ws[sheet] = Nil THEN [err |-> "", ws |-> ws]
  ELSE
  With(flatSqref(sqref),
    LAMBDA delCells :
      IF delCells.err # "" THEN [err |-> delCells.err, ws |-> ws]
      ELSE
      LET dv == ws[sheet][1]
          n == Len(dv.DataValidation)
          turn[i \in 0..n] ==
            IF i = 0 THEN [err |-> "", kept |-> <<>>, at |-> 0]
            ELSE IF turn[i - 1].err # "" THEN turn[i - 1]
            ELSE With(applySqrefOf(dv.DataValidation[i].Sqref, delCells.cells,
                                   i \in backwards),
                   LAMBDA a :
                     IF a.err # "" THEN [turn[i - 1] EXCEPT !.err = a.err, !.at = i]
                     ELSE IF a.empty THEN turn[i - 1]
                     ELSE [turn[i - 1] EXCEPT
                             !.kept = Append(@, [dv.DataValidation[i] EXCEPT
                                                   !.Sqref = a.Sqref])])
      IN With(turn[n],
           LAMBDA end :
             IF end.err # ""
             THEN [err |-> end.err,
                   ws |-> [ws EXCEPT ![sheet] =
                             Some([dv EXCEPT !.DataValidation =
                                     end.kept \o SubSeq(dv.DataValidation, end.at, n)])]]
             ELSE IF Len(end.kept) = 0 THEN [err |-> "", ws |-> [ws EXCEPT ![sheet] = Nil]]
             ELSE [err |-> "",
                   ws |-> [ws EXCEPT ![sheet] = Some([DataValidation |-> end.kept,
                                                      Count |-> Len(end.kept)])]]))

\* The data validations a caller adds, by their Sqref: a rectangle, a cell of
\* it and a text that is no reference; and the sequences given to
\* DeleteDataValidation.
DeletePool ==
  {[NewDataValidation(TRUE) EXCEPT !.Sqref = sqref] : sqref \in {"A1:B2", "A1", "A"}}

DeleteSqrefs == {"A1:B2", "A1", "B2:B1 A2", "A"}

\* The worksheets named in the calls: one of the workbook and one that it
\* has not.
DeleteSheets == {"Sheet1", "Sheet9"}

InitDelete == InitBook /\ InitWith(NewFile, DeletePool, 0)

\* f.AddDataValidation(sheet, dv)
AddDataValidationOn ==
  /\ validationCount(wsDataValidations, GetSheetList) < MaxValidations
  /\ \E sheet \in DeleteSheets, dv \in pool :
       \E r \in {AddDataValidation(wsDataValidations, sheet, dv)} :
          /\ wsDataValidations' = r.ws
          /\ last' = [op |-> "AddDataValidation", err |-> r.err, sheet |-> sheet,
                      resultDVs |-> EmptyMap]
  /\ UNCHANGED <<cells, names, calls, dd, Pkg, Relationships, PivotCaches,
                 ContentTypes, pool, budget, log, deleted>>

\* The entries whose cells are in more than one column: for them the order
\* of the range over the columns shows in the Sqref written.
severalColumns(had) ==
  {i \in 1..Len(had) : Cardinality(DOMAIN flatSqref(had[i].Sqref).cells) > 1}

\* f.DeleteDataValidation(sheet, sqref)
DeleteDataValidationByCall ==
  /\ \E sheet \in DeleteSheets, sqref \in DeleteSqrefs :
       \E had \in {IF sheet \in DOMAIN wsDataValidations /\ wsDataValidations[sheet] # Nil
                   THEN wsDataValidations[sheet][1].DataValidation ELSE <<>>} :
         \E backwards \in SUBSET severalColumns(had) :
           \E r \in {DeleteDataValidationBy(wsDataValidations, sheet, sqref, backwards)} :
              /\ wsDataValidations' = r.ws
              /\ last' = [op |-> "DeleteDataValidation", err |-> r.err, sheet |-> sheet,
                          resultDVs |-> EmptyMap, sqref |-> sqref, had |-> had]
  /\ UNCHANGED <<cells, names, calls, dd, Pkg, Relationships, PivotCaches,
                 ContentTypes, pool, budget, log, deleted>>

NextDelete ==
  AddDataValidationOn \/ DeleteDataValidationCall \/ DeleteDataValidationByCall

SpecDelete == InitDelete /\ [][NextDelete]_vars

\* The cells a reference sequence denotes, {} for a text that is none.
cellsOf(sqref) ==
  With(flatSqref(sqref),
       LAMBDA flat : UNION {Range(flat.cells[col]) : col \in DOMAIN flat.cells})

\* Is the container of a worksheet absent, or has it an entry and the count
\* of its entries?
containerSound(c) ==
  c = Nil \/ (Len(c[1].DataValidation) >= 1 /\ c[1].Count = Len(c[1].DataValidation))

\* C30: after any AddDataValidation and DeleteDataValidation calls, failed
\* ones included, the container of a worksheet is absent or has at least one
\* entry and the count of its entries; DeleteDataValidation without a
\* reference removes the container, and with a reference it removes every
\* data validation whose reference becomes empty.
C30_ContainerSound ==
  /\ \A sheet \in DOMAIN wsDataValidations : containerSound(wsDataValidations[sheet])
  /\ (last.op = "DeleteDataValidation" /\ last.err = "" /\ "sqref" \notin DOMAIN last)
       => wsDataValidations[last.sheet] = Nil
  /\ (last.op = "DeleteDataValidation" /\ last.err = "" /\ "sqref" \in DOMAIN last)
       => LET now == IF wsDataValidations[last.sheet] = Nil THEN <<>>
                     ELSE wsDataValidations[last.sheet][1].DataValidation
              stays == SelectSeq(last.had,
                                 LAMBDA v : cellsOf(v.Sqref) \ cellsOf(last.sqref) # {})
          IN /\ Len(now) = Len(stays)
             /\ \A i \in 1..Len(now) :
                  cellsOf(now[i].Sqref) = cellsOf(stays[i].Sqref) \ cellsOf(last.sqref)

\* Sheet1 held the data validations of A1:B2 and of the text A;
\* DeleteDataValidation("Sheet1", "A1:B2") has removed the first, returned
\* the error of the second and left the count 2 with one entry.
C30_Witness ==
  /\ last.op = "DeleteDataValidation" /\ last.err = ErrCellName
  /\ last.sheet = "Sheet1" /\ "sqref" \in DOMAIN last /\ last.sqref = "A1:B2"
  /\ Len(last.had) = 2 /\ last.had[1].Sqref = "A1:B2" /\ last.had[2].Sqref = "A"
  /\ wsDataValidations["Sheet1"] # Nil
  /\ wsDataValidations["Sheet1"][1].Count = 2
  /\ Len(wsDataValidations["Sheet1"][1].DataValidation) = 1
  /\ wsDataValidations["Sheet1"][1].DataValidation[1].Sqref = "A"

\* After calls that return no error the container is sound, and a call with
\* a reference has removed the data validations whose reference became empty
\* and cut the others.
C30_SoundAfterSuccess ==
  /\ (\A sheet \in DOMAIN wsDataValidations :
        wsDataValidations[sheet] # Nil
        => \A i \in 1..Len(wsDataValidations[sheet][1].DataValidation) :
             wsDataValidations[sheet][1].DataValidation[i].Sqref # "A")
     => \A sheet \in DOMAIN wsDataValidations : containerSound(wsDataValidations[sheet])
  /\ (last.op = "DeleteDataValidation" /\ last.err = "" /\ "sqref" \notin DOMAIN last)
       => wsDataValidations[last.sheet] = Nil
  /\ (last.op = "DeleteDataValidation" /\ last.err = "" /\ "sqref" \in DOMAIN last)
       => LET now == IF wsDataValidations[last.sheet] = Nil THEN <<>>
                     ELSE wsDataValidations[last.sheet][1].DataValidation
              stays == SelectSeq(last.had,
                                 LAMBDA v : cellsOf(v.Sqref) \ cellsOf(last.sqref) # {})
          IN /\ Len(now) = Len(stays)
             /\ \A i \in 1..Len(now) :
                  cellsOf(now[i].Sqref) = cellsOf(stays[i].Sqref) \ cellsOf(last.sqref)

\* The rectangle A1:B2 without the cell A1 is A2 and B1:B2, in either order
\* of the columns.
C30_Squashed ==
  /\ last.op = "DeleteDataValidation" /\ last.err = "" /\ "sqref" \in DOMAIN last
  /\ last.sqref = "A1" /\ Len(last.had) = 1 /\ last.had[1].Sqref = "A1:B2"
  /\ wsDataValidations[last.sheet][1].DataValidation[1].Sqref = "B1:B2 A2"
====
